---------------------------- MODULE Spec2Model ----------------------------
(***************************************************************************)
(* PondPilot CORS proxy: the shared security utilities                     *)
(* (src/shared/security.js and its older copy src/self-hosted/security.ts),*)
(* and the request life cycle of the three front ends: the query-form      *)
(* handler GET /proxy (src/unnamed/part_003), the path-form handler        *)
(* GET /proxy-path/:protocol/:host/* (src/self-hosted/server.ts) and the   *)
(* edge worker (src/cloudflare-worker/worker.ts).                          *)
(*                                                                         *)
(* JavaScript strings are modelled as sequences of one-character strings,  *)
(* so that trimming, splitting, escaping, regular-expression matching and  *)
(* URL parsing are computed character by character as the code does.       *)
(***************************************************************************)
EXTENDS Integers, Sequences, FiniteSets, TLC

(***************************************************************************)
(* JavaScript string primitives                                            *)
(***************************************************************************)

\* An optional value (undefined | x): <<>> is undefined, <<x>> is x.
None == <<>>

Some(x) == <<x>>

UpperLetters == <<"A","B","C","D","E","F","G","H","I","J","K","L","M","N","O","P","Q","R","S","T","U","V","W","X","Y","Z">>

LowerLetters == <<"a","b","c","d","e","f","g","h","i","j","k","l","m","n","o","p","q","r","s","t","u","v","w","x","y","z">>

Digits == {"0","1","2","3","4","5","6","7","8","9"}

HexDigits == Digits \cup {"a","b","c","d","e","f","A","B","C","D","E","F"}

Range(s) == {s[i] : i \in DOMAIN s}

\* String.prototype.toLowerCase on one character.
LowerChar(c) ==
  IF \E i \in DOMAIN UpperLetters : UpperLetters[i] = c
  THEN LowerLetters[CHOOSE i \in DOMAIN UpperLetters : UpperLetters[i] = c]
  ELSE c

\* String.prototype.toLowerCase
toLowerCase(s) == [i \in DOMAIN s |-> LowerChar(s[i])]

\* s.slice(from - 1): the part of s from position from (1-based) on.
Drop(s, from) == SubSeq(s, from, Len(s))

\* s.startsWith(p, at - 1)
StartsWithAt(s, p, at) ==
  /\ at + Len(p) - 1 <= Len(s)
  /\ \A k \in DOMAIN p : s[at + k - 1] = p[k]

StartsWith(s, p) == StartsWithAt(s, p, 1)

\* s.includes(p)
Includes(s, p) == \E at \in 1..(Len(s) + 1) : StartsWithAt(s, p, at)

\* The first position >= from of a character of set cs in s, or 0.
IndexOfAny(s, cs, from) ==
  IF \E i \in from..Len(s) : s[i] \in cs
  THEN CHOOSE i \in from..Len(s) : s[i] \in cs /\ \A k \in from..(i - 1) : s[k] \notin cs
  ELSE 0

\* The last position of character c in s, or 0.
LastIndexOf(s, c) ==
  IF \E i \in DOMAIN s : s[i] = c
  THEN CHOOSE i \in DOMAIN s : s[i] = c /\ \A k \in (i + 1)..Len(s) : s[k] # c
  ELSE 0

\* String.prototype.trim's white space (the inputs use blanks and tabs).
WhiteSpace == {" ", "\t"}

RECURSIVE TrimStart(_)
TrimStart(s) ==
  IF s # <<>> /\ Head(s) \in WhiteSpace THEN TrimStart(Tail(s)) ELSE s

RECURSIVE TrimEnd(_)
TrimEnd(s) ==
  IF s # <<>> /\ s[Len(s)] \in WhiteSpace THEN TrimEnd(SubSeq(s, 1, Len(s) - 1)) ELSE s

\* String.prototype.trim
Trim(s) == TrimEnd(TrimStart(s))

\* String.prototype.split(c): always at least one (possibly empty) segment.
RECURSIVE Split(_, _)
Split(s, c) ==
  LET i == IndexOfAny(s, {c}, 1)
  IN  IF i = 0 THEN <<s>>
      ELSE <<SubSeq(s, 1, i - 1)>> \o Split(Drop(s, i + 1), c)

\* The concatenation of the strings ss[lo..hi], by halves: a string of a
\* hundred characters is assembled at a depth of seven.
RECURSIVE ConcatRange(_, _, _)
ConcatRange(ss, lo, hi) ==
  IF lo > hi THEN <<>>
  ELSE IF lo = hi THEN ss[lo]
  ELSE ConcatRange(ss, lo, (lo + hi) \div 2) \o ConcatRange(ss, (lo + hi) \div 2 + 1, hi)

\* ss.join('')
Concat(ss) == ConcatRange(ss, 1, Len(ss))

\* s.replace(/p/g, r) for a literal pattern p: non-overlapping matches, left
\* to right, in one pass (the replacement text is not scanned again).  The
\* matches of a one-character pattern cannot overlap: each character is
\* replaced on its own.
RECURSIVE ReplaceAll(_, _, _)
ReplaceAll(s, p, r) ==
  IF Len(p) = 1 THEN Concat([i \in DOMAIN s |-> IF s[i] = p[1] THEN r ELSE <<s[i]>>])
  ELSE IF s = <<>> THEN <<>>
  ELSE IF StartsWith(s, p) THEN r \o ReplaceAll(Drop(s, Len(p) + 1), p, r)
  ELSE <<Head(s)>> \o ReplaceAll(Tail(s), p, r)

\* s.replace(/c+/g, c): every run of character c becomes one c.
RECURSIVE CollapseRuns(_, _)
CollapseRuns(s, c) ==
  IF s = <<>> THEN <<>>
  ELSE IF Head(s) = c /\ Len(s) >= 2 /\ s[2] = c THEN CollapseRuns(Tail(s), c)
  ELSE <<Head(s)>> \o CollapseRuns(Tail(s), c)

DigitValue(c) ==
  CASE c = "0" -> 0 [] c = "1" -> 1 [] c = "2" -> 2 [] c = "3" -> 3 [] c = "4" -> 4
    [] c = "5" -> 5 [] c = "6" -> 6 [] c = "7" -> 7 [] c = "8" -> 8 [] c = "9" -> 9

RECURSIVE DigitsValue(_, _)
DigitsValue(s, acc) ==
  IF s = <<>> \/ Head(s) \notin Digits THEN acc
  ELSE DigitsValue(Tail(s), acc * 10 + DigitValue(Head(s)))

\* parseInt(s): leading white space skipped, then the longest run of decimal
\* digits; NaN (None) when there is none.  (No sign or radix prefix in the
\* inputs.)
parseInt(s) ==
  LET t == TrimStart(s)
  IN  IF t = <<>> \/ Head(t) \notin Digits THEN None ELSE Some(DigitsValue(t, 0))

(***************************************************************************)
(* Regular expressions (the subset the code uses)                          *)
(*                                                                         *)
(* A compiled RegExp is [toks, icase]; toks is a sequence of tokens        *)
(* <<kind, arg>>:                                                          *)
(*   <<"lit", c>>     the character c                                      *)
(*   <<"set", cls>>   one character of class cls                           *)
(*   <<"star", cls>>  cls*  (zero or more, with backtracking)              *)
(*   <<"plus", cls>>  cls+  (one or more)                                  *)
(*   <<"end", "">>    $                                                    *)
(* Every pattern of the code starts with ^, so matching starts at the      *)
(* first character; a pattern without a closing $ matches any string with  *)
(* a matching prefix.                                                      *)
(***************************************************************************)

\* Character classes: "any" is . , "nodot" is [^.] , the others are ranges.
InClass(c, cls) ==
  CASE cls = "any"   -> TRUE
    [] cls = "nodot" -> c # "."
    [] cls = "0-9a-z" -> c \in Digits \/ c \in Range(LowerLetters)
    [] cls = "0-9"   -> c \in Digits
    [] cls = "6-9"   -> c \in {"6", "7", "8", "9"}
    [] cls = "0-1"   -> c \in {"0", "1"}

\* Flag i: letters compare without case.
CharEq(a, b, icase) == IF icase THEN LowerChar(a) = LowerChar(b) ELSE a = b

RECURSIVE MatchFrom(_, _, _, _, _)
MatchFrom(toks, i, s, j, icase) ==
  IF i > Len(toks) THEN TRUE
  ELSE LET kind == toks[i][1]
           arg  == toks[i][2]
       IN  CASE kind = "end" -> j > Len(s)
             [] kind = "lit" ->
                  /\ j <= Len(s)
                  /\ CharEq(s[j], arg, icase)
                  /\ MatchFrom(toks, i + 1, s, j + 1, icase)
             [] kind = "set" ->
                  /\ j <= Len(s)
                  /\ InClass(s[j], arg)
                  /\ MatchFrom(toks, i + 1, s, j + 1, icase)
             [] kind = "star" ->
                  \/ MatchFrom(toks, i + 1, s, j, icase)
                  \/ /\ j <= Len(s)
                     /\ InClass(s[j], arg)
                     /\ MatchFrom(toks, i, s, j + 1, icase)
             [] kind = "plus" ->
                  /\ j <= Len(s)
                  /\ InClass(s[j], arg)
                  /\ \/ MatchFrom(toks, i + 1, s, j + 1, icase)
                     \/ MatchFrom(toks, i, s, j + 1, icase)

\* RegExp.prototype.test for a pattern anchored at ^.
Test(re, s) == MatchFrom(re.toks, 1, s, 1, re.icase)

\* The atom of regular-expression source src at position i, as
\* <<token kind "lit" or "set", arg, length in the source>>:
\*   \c   the literal c          [^.]  a non-dot character
\*   .    any character          c     the literal c
AtomAt(src, i) ==
  IF src[i] = "\\" /\ i < Len(src) THEN <<"lit", src[i + 1], 2>>
  ELSE IF StartsWithAt(src, <<"[", "^", ".", "]">>, i) THEN <<"set", "nodot", 4>>
  ELSE IF src[i] = "." THEN <<"set", "any", 1>>
  ELSE <<"lit", src[i], 1>>

\* Whether the character at position i of src is taken by a backslash
\* before it: the backslashes that end at i - 1 are odd in number.
Escaped(src, i) ==
  \E k \in 1..(i - 1) :
    /\ \A m \in k..(i - 1) : src[m] = "\\"
    /\ k = 1 \/ src[k - 1] # "\\"
    /\ (i - k) % 2 = 1

\* The token that starts at position i of src, as a sequence of one token,
\* or of none when the character at i belongs to the token before it (it is
\* escaped, it is inside a [^.], or it is the * of a starred atom).  An atom
\* followed by * is a star (the sources compiled here put * only after
\* [^.] and .), an unescaped $ is the end anchor.
TokenAt(src, i) ==
  LET classAt(k)  == k >= 1 /\ ~Escaped(src, k) /\ StartsWithAt(src, <<"[", "^", ".", "]">>, k)
      insideClass == classAt(i - 1) \/ classAt(i - 2) \/ classAt(i - 3)
      starOfAtom  == /\ src[i] = "*"
                     /\ \/ classAt(i - 4)
                        \/ /\ i >= 2 /\ src[i - 1] = "." /\ ~Escaped(src, i - 1)
                           /\ ~(classAt(i - 2) \/ classAt(i - 3) \/ classAt(i - 4))
      a           == AtomAt(src, i)
      next        == i + a[3]
  IN  IF Escaped(src, i) \/ insideClass \/ starOfAtom THEN <<>>
      ELSE IF src[i] = "$" THEN <<(<<"end", "">>)>>
      ELSE IF next <= Len(src) /\ src[next] = "*" /\ a[1] = "set"
      THEN <<(<<"star", a[2]>>)>>
      ELSE <<(<<a[1], a[2]>>)>>

\* The tokens of regular-expression source src from position i on.
Tokens(src, i) ==
  Concat([k \in 1..(Len(src) - i + 1) |-> TokenAt(src, k + i - 1)])

\* new RegExp(src, flags) for a source that starts with ^.
RegExp(src, icase) == [toks |-> Tokens(src, 2), icase |-> icase]

(***************************************************************************)
(* new URL(input): the WHATWG URL parser, for absolute URLs whose host is  *)
(* written in its serialized form (a lower- or upper-case domain, a dotted *)
(* decimal IPv4 address, a compressed IPv6 address in brackets).  Only the *)
(* protocol and the hostname, which the code reads, are computed.          *)
(***************************************************************************)

SchemeChars == Range(UpperLetters) \cup Range(LowerLetters) \cup Digits \cup {"+", "-", "."}

\* Schemes whose URLs have a host: after the colon any run of slashes is
\* skipped and the authority follows.
SpecialSchemes == { <<"h","t","t","p">>, <<"h","t","t","p","s">>, <<"f","t","p">>, <<"w","s">>, <<"w","s","s">> }

ForbiddenHostChars ==
  {" ", "\t", "#", "/", ":", "<", ">", "?", "@", "[", "\\", "]", "^", "|", "%"}

URLFailure == [ok |-> FALSE, protocol |-> <<>>, hostname |-> <<>>]

RECURSIVE SkipSlashes(_)
SkipSlashes(s) ==
  IF s # <<>> /\ Head(s) \in {"/", "\\"} THEN SkipSlashes(Tail(s)) ELSE s

\* The authority: up to the first path, query or fragment delimiter.
Authority(s, delims) ==
  LET i == IndexOfAny(s, delims, 1)
  IN  IF i = 0 THEN s ELSE SubSeq(s, 1, i - 1)

\* The authority without its userinfo (everything up to the last @).
HostPort(auth) == Drop(auth, LastIndexOf(auth, "@") + 1)

\* A port: empty or decimal digits.
IsPort(p) == \A i \in DOMAIN p : p[i] \in Digits

\* The host of hostport as the host serializer writes it: an IPv6 address
\* keeps its brackets, a domain is lower-cased; <<>> on failure.
HostOf(hostport) ==
  IF hostport # <<>> /\ Head(hostport) = "["
  THEN LET j     == IndexOfAny(hostport, {"]"}, 1)
           inner == SubSeq(hostport, 2, j - 1)
           after == Drop(hostport, j + 1)
       IN  IF /\ j > 2
              /\ \A i \in DOMAIN inner : inner[i] \in HexDigits \cup {":"}
              /\ Includes(inner, <<":">>)
              /\ (after = <<>> \/ (Head(after) = ":" /\ IsPort(Tail(after))))
           THEN <<"[">> \o toLowerCase(inner) \o <<"]">>
           ELSE <<>>
  ELSE LET k    == IndexOfAny(hostport, {":"}, 1)
           host == IF k = 0 THEN hostport ELSE SubSeq(hostport, 1, k - 1)
           port == IF k = 0 THEN <<>> ELSE Drop(hostport, k + 1)
       IN  IF /\ host # <<>>
              /\ IsPort(port)
              /\ \A i \in DOMAIN host : host[i] \notin ForbiddenHostChars
           THEN toLowerCase(host)
           ELSE <<>>

URLParse(input) ==
  LET s     == Trim(input)
      colon == IndexOfAny(s, {":"}, 1)
  IN  IF \/ colon <= 1
         \/ s[1] \notin Range(UpperLetters) \cup Range(LowerLetters)
         \/ \E i \in 1..(colon - 1) : s[i] \notin SchemeChars
      THEN URLFailure
      ELSE LET scheme == toLowerCase(SubSeq(s, 1, colon - 1))
               rest   == Drop(s, colon + 1)
           IN  IF scheme \in SpecialSchemes
               THEN LET host == HostOf(HostPort(Authority(SkipSlashes(rest), {"/", "\\", "?", "#"})))
                    IN  IF host = <<>> THEN URLFailure
                        ELSE [ok |-> TRUE, protocol |-> scheme \o <<":">>, hostname |-> host]
               ELSE \* file:, data:, javascript:, ...: no host is read
                    [ok |-> TRUE, protocol |-> scheme \o <<":">>, hostname |-> <<>>]

(***************************************************************************)
(* src/shared/security.js                                                  *)
(***************************************************************************)

\* /^172\.(1[6-9]|2[0-9]|3[0-1])\./ is written as its three alternatives.
PRIVATE_IP_PATTERNS == <<
  [toks |-> <<<<"lit","1">>, <<"lit","2">>, <<"lit","7">>, <<"lit",".">>>>, icase |-> FALSE],
  [toks |-> <<<<"lit","1">>, <<"lit","0">>, <<"lit",".">>>>, icase |-> FALSE],
  [toks |-> <<<<"lit","1">>, <<"lit","7">>, <<"lit","2">>, <<"lit",".">>, <<"lit","1">>, <<"set","6-9">>, <<"lit",".">>>>, icase |-> FALSE],
  [toks |-> <<<<"lit","1">>, <<"lit","7">>, <<"lit","2">>, <<"lit",".">>, <<"lit","2">>, <<"set","0-9">>, <<"lit",".">>>>, icase |-> FALSE],
  [toks |-> <<<<"lit","1">>, <<"lit","7">>, <<"lit","2">>, <<"lit",".">>, <<"lit","3">>, <<"set","0-1">>, <<"lit",".">>>>, icase |-> FALSE],
  [toks |-> <<<<"lit","1">>, <<"lit","9">>, <<"lit","2">>, <<"lit",".">>, <<"lit","1">>, <<"lit","6">>, <<"lit","8">>, <<"lit",".">>>>, icase |-> FALSE],
  [toks |-> <<<<"lit","1">>, <<"lit","6">>, <<"lit","9">>, <<"lit",".">>, <<"lit","2">>, <<"lit","5">>, <<"lit","4">>, <<"lit",".">>>>, icase |-> FALSE],
  [toks |-> <<<<"lit","0">>, <<"lit",".">>>>, icase |-> FALSE],
  [toks |-> <<<<"lit","2">>, <<"lit","2">>, <<"lit","4">>, <<"lit",".">>>>, icase |-> FALSE],
  [toks |-> <<<<"lit","2">>, <<"lit","4">>, <<"lit","0">>, <<"lit",".">>>>, icase |-> FALSE],
  [toks |-> <<<<"lit","2">>, <<"lit","5">>, <<"lit","5">>, <<"lit",".">>, <<"lit","2">>, <<"lit","5">>, <<"lit","5">>, <<"lit",".">>, <<"lit","2">>, <<"lit","5">>, <<"lit","5">>, <<"lit",".">>, <<"lit","2">>, <<"lit","5">>, <<"lit","5">>, <<"end","">>>>, icase |-> FALSE],
  [toks |-> <<<<"lit",":">>, <<"lit",":">>, <<"lit","1">>, <<"end","">>>>, icase |-> FALSE],
  [toks |-> <<<<"lit","f">>, <<"lit","e">>, <<"lit","8">>, <<"lit","0">>, <<"lit",":">>>>, icase |-> FALSE],
  [toks |-> <<<<"lit","f">>, <<"lit","c">>, <<"lit","0">>, <<"lit","0">>, <<"lit",":">>>>, icase |-> FALSE],
  [toks |-> <<<<"lit","f">>, <<"lit","d">>, <<"lit","0">>, <<"lit","0">>, <<"lit",":">>>>, icase |-> FALSE] >>

BLOCKED_HOSTNAMES == {
  <<"l","o","c","a","l","h","o","s","t">>,
  <<"0",".","0",".","0",".","0">>,
  <<"m","e","t","a","d","a","t","a",".","g","o","o","g","l","e",".","i","n","t","e","r","n","a","l">>,
  <<"k","u","b","e","r","n","e","t","e","s">>,
  <<"k","u","b","e","r","n","e","t","e","s",".","d","e","f","a","u","l","t">> }

DEFAULT_ALLOWED_DOMAINS == <<
  [toks |-> <<<<"star","any">>, <<"lit",".">>, <<"lit","s">>, <<"lit","3">>, <<"lit",".">>, <<"lit","a">>, <<"lit","m">>, <<"lit","a">>, <<"lit","z">>, <<"lit","o">>, <<"lit","n">>, <<"lit","a">>, <<"lit","w">>, <<"lit","s">>, <<"lit",".">>, <<"lit","c">>, <<"lit","o">>, <<"lit","m">>, <<"end","">>>>, icase |-> FALSE],
  [toks |-> <<<<"star","any">>, <<"lit",".">>, <<"lit","s">>, <<"lit","3">>, <<"lit",".">>, <<"star","any">>, <<"lit",".">>, <<"lit","a">>, <<"lit","m">>, <<"lit","a">>, <<"lit","z">>, <<"lit","o">>, <<"lit","n">>, <<"lit","a">>, <<"lit","w">>, <<"lit","s">>, <<"lit",".">>, <<"lit","c">>, <<"lit","o">>, <<"lit","m">>, <<"end","">>>>, icase |-> FALSE],
  [toks |-> <<<<"lit","s">>, <<"lit","3">>, <<"lit",".">>, <<"lit","a">>, <<"lit","m">>, <<"lit","a">>, <<"lit","z">>, <<"lit","o">>, <<"lit","n">>, <<"lit","a">>, <<"lit","w">>, <<"lit","s">>, <<"lit",".">>, <<"lit","c">>, <<"lit","o">>, <<"lit","m">>, <<"end","">>>>, icase |-> FALSE],
  [toks |-> <<<<"lit","s">>, <<"lit","3">>, <<"lit",".">>, <<"star","any">>, <<"lit",".">>, <<"lit","a">>, <<"lit","m">>, <<"lit","a">>, <<"lit","z">>, <<"lit","o">>, <<"lit","n">>, <<"lit","a">>, <<"lit","w">>, <<"lit","s">>, <<"lit",".">>, <<"lit","c">>, <<"lit","o">>, <<"lit","m">>, <<"end","">>>>, icase |-> FALSE],
  [toks |-> <<<<"lit","d">>, <<"plus","0-9a-z">>, <<"lit",".">>, <<"lit","c">>, <<"lit","l">>, <<"lit","o">>, <<"lit","u">>, <<"lit","d">>, <<"lit","f">>, <<"lit","r">>, <<"lit","o">>, <<"lit","n">>, <<"lit","t">>, <<"lit",".">>, <<"lit","n">>, <<"lit","e">>, <<"lit","t">>, <<"end","">>>>, icase |-> FALSE],
  [toks |-> <<<<"star","any">>, <<"lit",".">>, <<"lit","g">>, <<"lit","i">>, <<"lit","t">>, <<"lit","h">>, <<"lit","u">>, <<"lit","b">>, <<"lit",".">>, <<"lit","i">>, <<"lit","o">>, <<"end","">>>>, icase |-> FALSE],
  [toks |-> <<<<"star","any">>, <<"lit",".">>, <<"lit","g">>, <<"lit","i">>, <<"lit","t">>, <<"lit","h">>, <<"lit","u">>, <<"lit","b">>, <<"lit","u">>, <<"lit","s">>, <<"lit","e">>, <<"lit","r">>, <<"lit","c">>, <<"lit","o">>, <<"lit","n">>, <<"lit","t">>, <<"lit","e">>, <<"lit","n">>, <<"lit","t">>, <<"lit",".">>, <<"lit","c">>, <<"lit","o">>, <<"lit","m">>, <<"end","">>>>, icase |-> FALSE],
  [toks |-> <<<<"lit","r">>, <<"lit","a">>, <<"lit","w">>, <<"lit",".">>, <<"lit","g">>, <<"lit","i">>, <<"lit","t">>, <<"lit","h">>, <<"lit","u">>, <<"lit","b">>, <<"lit","u">>, <<"lit","s">>, <<"lit","e">>, <<"lit","r">>, <<"lit","c">>, <<"lit","o">>, <<"lit","n">>, <<"lit","t">>, <<"lit","e">>, <<"lit","n">>, <<"lit","t">>, <<"lit",".">>, <<"lit","c">>, <<"lit","o">>, <<"lit","m">>, <<"end","">>>>, icase |-> FALSE],
  [toks |-> <<<<"lit","s">>, <<"lit","t">>, <<"lit","o">>, <<"lit","r">>, <<"lit","a">>, <<"lit","g">>, <<"lit","e">>, <<"lit",".">>, <<"lit","g">>, <<"lit","o">>, <<"lit","o">>, <<"lit","g">>, <<"lit","l">>, <<"lit","e">>, <<"lit","a">>, <<"lit","p">>, <<"lit","i">>, <<"lit","s">>, <<"lit",".">>, <<"lit","c">>, <<"lit","o">>, <<"lit","m">>, <<"end","">>>>, icase |-> FALSE],
  [toks |-> <<<<"star","any">>, <<"lit",".">>, <<"lit","s">>, <<"lit","t">>, <<"lit","o">>, <<"lit","r">>, <<"lit","a">>, <<"lit","g">>, <<"lit","e">>, <<"lit",".">>, <<"lit","g">>, <<"lit","o">>, <<"lit","o">>, <<"lit","g">>, <<"lit","l">>, <<"lit","e">>, <<"lit","a">>, <<"lit","p">>, <<"lit","i">>, <<"lit","s">>, <<"lit",".">>, <<"lit","c">>, <<"lit","o">>, <<"lit","m">>, <<"end","">>>>, icase |-> FALSE],
  [toks |-> <<<<"star","any">>, <<"lit",".">>, <<"lit","b">>, <<"lit","l">>, <<"lit","o">>, <<"lit","b">>, <<"lit",".">>, <<"lit","c">>, <<"lit","o">>, <<"lit","r">>, <<"lit","e">>, <<"lit",".">>, <<"lit","w">>, <<"lit","i">>, <<"lit","n">>, <<"lit","d">>, <<"lit","o">>, <<"lit","w">>, <<"lit","s">>, <<"lit",".">>, <<"lit","n">>, <<"lit","e">>, <<"lit","t">>, <<"end","">>>>, icase |-> FALSE],
  [toks |-> <<<<"lit","d">>, <<"lit","a">>, <<"lit","t">>, <<"lit","a">>, <<"lit",".">>, <<"lit","g">>, <<"lit","o">>, <<"lit","v">>, <<"end","">>>>, icase |-> FALSE],
  [toks |-> <<<<"star","any">>, <<"lit",".">>, <<"lit","d">>, <<"lit","a">>, <<"lit","t">>, <<"lit","a">>, <<"lit",".">>, <<"lit","g">>, <<"lit","o">>, <<"lit","v">>, <<"end","">>>>, icase |-> FALSE],
  [toks |-> <<<<"lit","d">>, <<"lit","a">>, <<"lit","t">>, <<"lit","a">>, <<"lit",".">>, <<"lit","g">>, <<"lit","o">>, <<"lit","u">>, <<"lit","v">>, <<"lit",".">>, <<"lit","f">>, <<"lit","r">>, <<"end","">>>>, icase |-> FALSE],
  [toks |-> <<<<"star","any">>, <<"lit",".">>, <<"lit","d">>, <<"lit","a">>, <<"lit","t">>, <<"lit","a">>, <<"lit",".">>, <<"lit","g">>, <<"lit","o">>, <<"lit","u">>, <<"lit","v">>, <<"lit",".">>, <<"lit","f">>, <<"lit","r">>, <<"end","">>>>, icase |-> FALSE] >>

\* Array.prototype.some(pattern => pattern.test(s))
SomeTest(patterns, s) == \E i \in DOMAIN patterns : Test(patterns[i], s)

isPrivateIP(hostname) ==
  \/ toLowerCase(hostname) \in BLOCKED_HOSTNAMES
  \/ SomeTest(PRIVATE_IP_PATTERNS, hostname)

isAllowedDomain(hostname, allowedDomains) ==
  SomeTest(allowedDomains, toLowerCase(hostname))

\* A rejection without a message: what the rejections are compared with.
Invalid_NoMessage(msg, arg) == [valid |-> FALSE, error |-> [msg |-> "", arg |-> <<>>]]

\* A ValidationResult { valid: false, error }: the message is kept as its
\* fixed text and the value interpolated into it.
Invalid(msg, arg) == [valid |-> FALSE, error |-> [msg |-> msg, arg |-> arg]]

Valid == [valid |-> TRUE]

\* config.x || fallback, for an optional array
OrElse(opt, fallback) == IF opt = None THEN fallback ELSE opt[1]

\* Array.prototype.includes
SeqIncludes(xs, x) == \E i \in DOMAIN xs : xs[i] = x

DefaultProtocols == << <<"h","t","t","p","s",":">>, <<"h","t","t","p",":">> >>

\* A validator that runs the SSRF guard before the protocol checks: what
\* the order of the checks is compared with.
validateTargetUrl_GuardFirst(targetUrl, config) ==
  LET parsed           == URLParse(targetUrl)
      allowedProtocols == OrElse(config.allowedProtocols, DefaultProtocols)
      allowedDomains   == OrElse(config.allowedDomains, DEFAULT_ALLOWED_DOMAINS)
  IN  IF ~parsed.ok
      THEN Invalid("Invalid URL format", <<>>)
      ELSE IF isPrivateIP(parsed.hostname)
      THEN Invalid("Access to private/internal IP addresses is not allowed", <<>>)
      ELSE IF ~SeqIncludes(allowedProtocols, parsed.protocol)
      THEN Invalid("Protocol ... not allowed", parsed.protocol)
      ELSE IF config.httpsOnly /\ parsed.protocol # <<"h","t","t","p","s",":">>
      THEN Invalid("Only HTTPS URLs are allowed", <<>>)
      ELSE IF ~isAllowedDomain(parsed.hostname, allowedDomains)
      THEN Invalid("Domain ... is not in the allowlist", parsed.hostname)
      ELSE Valid

validateTargetUrl(targetUrl, config) ==
  LET parsed           == URLParse(targetUrl)
      allowedProtocols == OrElse(config.allowedProtocols, DefaultProtocols)
      allowedDomains   == OrElse(config.allowedDomains, DEFAULT_ALLOWED_DOMAINS)
  IN  IF ~parsed.ok
      THEN Invalid("Invalid URL format", <<>>)
      ELSE IF ~SeqIncludes(allowedProtocols, parsed.protocol)
      THEN Invalid("Protocol ... not allowed", parsed.protocol)
      ELSE IF config.httpsOnly /\ parsed.protocol # <<"h","t","t","p","s",":">>
      THEN Invalid("Only HTTPS URLs are allowed", <<>>)
      ELSE IF isPrivateIP(parsed.hostname)
      THEN Invalid("Access to private/internal IP addresses is not allowed", <<>>)
      ELSE IF ~isAllowedDomain(parsed.hostname, allowedDomains)
      THEN Invalid("Domain ... is not in the allowlist", parsed.hostname)
      ELSE Valid

MAX_PATTERN_LENGTH == 100

MAX_WILDCARDS == 3

\* (pattern.match(/\*/g) || []).length
CountChar(s, c) == Cardinality({i \in DOMAIN s : s[i] = c})

\* /(\*\.?){2,}/.test(pattern): two wildcards in a row, with or without a
\* dot between them.
HasConsecutiveWildcards(pattern) ==
  \E i \in DOMAIN pattern :
    /\ pattern[i] = "*"
    /\ \/ StartsWithAt(pattern, <<"*">>, i + 1)
       \/ StartsWithAt(pattern, <<".", "*">>, i + 1)

\* /\*\*+/.test(pattern)
HasMultipleAsterisks(pattern) == Includes(pattern, <<"*", "*">>)

\* A complexity check that looks at the length only: what the check is
\* compared with.
validatePatternComplexity_LengthOnly(pattern) ==
  IF Len(pattern) > MAX_PATTERN_LENGTH
  THEN [valid |-> FALSE, reason |-> "pattern too long"]
  ELSE [valid |-> TRUE, reason |-> ""]

validatePatternComplexity(pattern) ==
  IF Len(pattern) > MAX_PATTERN_LENGTH
  THEN [valid |-> FALSE, reason |-> "pattern too long"]
  ELSE IF CountChar(pattern, "*") > MAX_WILDCARDS
  THEN [valid |-> FALSE, reason |-> "too many wildcards"]
  ELSE IF HasConsecutiveWildcards(pattern) \/ HasMultipleAsterisks(pattern)
  THEN [valid |-> FALSE, reason |-> "suspicious pattern detected"]
  ELSE [valid |-> TRUE, reason |-> ""]

\* The characters /[.+?^${}()|[\]\\]/ escapes.
RegexSpecials == {".", "+", "?", "^", "$", "{", "}", "(", ")", "|", "[", "]", "\\"}

\* pattern.replace(/[.+?^${}()|[\]\\]/g, '\\$&')
EscapeSpecials(s) ==
  Concat([i \in DOMAIN s |-> IF s[i] \in RegexSpecials THEN <<"\\", s[i]>> ELSE <<s[i]>>])

\* The regular expression of one accepted pattern:
\* escape, then * -> [^.]* , then new RegExp(`^${escaped}$`, 'i').
CompilePattern(pattern) ==
  LET escaped == ReplaceAll(EscapeSpecials(pattern), <<"*">>, <<"[", "^", ".", "]", "*">>)
  IN  RegExp(<<"^">> \o escaped \o <<"$">>, TRUE)

\* .split(',').map(d => d.trim()).filter(d => d.length > 0)
RECURSIVE TrimmedSegments(_)
TrimmedSegments(segs) ==
  IF segs = <<>> THEN <<>>
  ELSE (IF Trim(Head(segs)) # <<>> THEN <<Trim(Head(segs))>> ELSE <<>>)
       \o TrimmedSegments(Tail(segs))

\* .map(pattern => valid ? new RegExp(...) : null).filter(p => p !== null)
RECURSIVE CompileAccepted(_)
CompileAccepted(patterns) ==
  IF patterns = <<>> THEN <<>>
  ELSE (IF validatePatternComplexity(Head(patterns)).valid
        THEN <<CompilePattern(Head(patterns))>> ELSE <<>>)
       \o CompileAccepted(Tail(patterns))

\* domainsString is optional (undefined is None).
parseAllowedDomains(domainsString) ==
  IF domainsString = None \/ domainsString[1] = <<>> \/ Trim(domainsString[1]) = <<>>
  THEN DEFAULT_ALLOWED_DOMAINS
  ELSE LET patterns == CompileAccepted(TrimmedSegments(Split(domainsString[1], ",")))
       IN  IF Len(patterns) > 0 THEN patterns ELSE DEFAULT_ALLOWED_DOMAINS

MB == 1048576

\* response is [status, headers]; headers maps a lower-case header name to
\* its value.  headers.get(name) is null (None) when the header is absent.
HeaderGet(headers, name) ==
  IF name \in DOMAIN headers THEN Some(headers[name]) ELSE None

\* A response validator that checks the declared size before the status:
\* what the precedence of the redirect check is compared with.
validateResponse_SizeFirst(response, maxFileSizeMB) ==
  LET contentLength == HeaderGet(response.headers, "content-length")
      bytes         == IF contentLength = None THEN None ELSE parseInt(contentLength[1])
  IN  IF /\ contentLength # None
         /\ contentLength[1] # <<>>
         /\ bytes # None
         /\ bytes[1] > maxFileSizeMB * MB
      THEN Invalid("File too large", contentLength[1])
      ELSE IF response.status >= 300 /\ response.status < 400
      THEN Invalid("Redirects are not supported for security reasons", <<>>)
      ELSE Valid

\* A response validator that rejects a declared size equal to the limit:
\* what the size comparison is compared with.
validateResponse_AtLimit(response, maxFileSizeMB) ==
  IF response.status >= 300 /\ response.status < 400
  THEN Invalid("Redirects are not supported for security reasons", <<>>)
  ELSE LET contentLength == HeaderGet(response.headers, "content-length")
           bytes         == IF contentLength = None THEN None ELSE parseInt(contentLength[1])
       IN  IF /\ contentLength # None
              /\ contentLength[1] # <<>>
              /\ bytes # None
              /\ bytes[1] >= maxFileSizeMB * MB
           THEN Invalid("File too large", contentLength[1])
           ELSE Valid

validateResponse(response, maxFileSizeMB) ==
  IF response.status >= 300 /\ response.status < 400
  THEN Invalid("Redirects are not supported for security reasons", <<>>)
  ELSE LET contentLength == HeaderGet(response.headers, "content-length")
           bytes         == IF contentLength = None THEN None ELSE parseInt(contentLength[1])
       IN  \* if (contentLength): null and the empty string are falsy;
           \* NaN / MB > max is false;  n / MB > max  iff  n > max * MB
           IF /\ contentLength # None
              /\ contentLength[1] # <<>>
              /\ bytes # None
              /\ bytes[1] > maxFileSizeMB * MB
           THEN Invalid("File too large", contentLength[1])
           ELSE Valid

(***************************************************************************)
(* src/self-hosted/security.ts: the older copy of the security utilities.  *)
(* isPrivateIP, isAllowedDomain, validateTargetUrl and validateResponse    *)
(* are the same as in src/shared/security.js; the default allowlist and    *)
(* parseAllowedDomains differ.                                             *)
(***************************************************************************)

SelfHosted_DEFAULT_ALLOWED_DOMAINS == <<
  [toks |-> <<<<"star","any">>, <<"lit",".">>, <<"lit","s">>, <<"lit","3">>, <<"lit",".">>, <<"lit","a">>, <<"lit","m">>, <<"lit","a">>, <<"lit","z">>, <<"lit","o">>, <<"lit","n">>, <<"lit","a">>, <<"lit","w">>, <<"lit","s">>, <<"lit",".">>, <<"lit","c">>, <<"lit","o">>, <<"lit","m">>, <<"end","">>>>, icase |-> FALSE],
  [toks |-> <<<<"star","any">>, <<"lit",".">>, <<"lit","s">>, <<"lit","3">>, <<"lit",".">>, <<"star","any">>, <<"lit",".">>, <<"lit","a">>, <<"lit","m">>, <<"lit","a">>, <<"lit","z">>, <<"lit","o">>, <<"lit","n">>, <<"lit","a">>, <<"lit","w">>, <<"lit","s">>, <<"lit",".">>, <<"lit","c">>, <<"lit","o">>, <<"lit","m">>, <<"end","">>>>, icase |-> FALSE],
  [toks |-> <<<<"lit","s">>, <<"lit","3">>, <<"lit",".">>, <<"lit","a">>, <<"lit","m">>, <<"lit","a">>, <<"lit","z">>, <<"lit","o">>, <<"lit","n">>, <<"lit","a">>, <<"lit","w">>, <<"lit","s">>, <<"lit",".">>, <<"lit","c">>, <<"lit","o">>, <<"lit","m">>, <<"end","">>>>, icase |-> FALSE],
  [toks |-> <<<<"lit","s">>, <<"lit","3">>, <<"lit",".">>, <<"star","any">>, <<"lit",".">>, <<"lit","a">>, <<"lit","m">>, <<"lit","a">>, <<"lit","z">>, <<"lit","o">>, <<"lit","n">>, <<"lit","a">>, <<"lit","w">>, <<"lit","s">>, <<"lit",".">>, <<"lit","c">>, <<"lit","o">>, <<"lit","m">>, <<"end","">>>>, icase |-> FALSE],
  [toks |-> <<<<"star","any">>, <<"lit",".">>, <<"lit","c">>, <<"lit","l">>, <<"lit","o">>, <<"lit","u">>, <<"lit","d">>, <<"lit","f">>, <<"lit","r">>, <<"lit","o">>, <<"lit","n">>, <<"lit","t">>, <<"lit",".">>, <<"lit","n">>, <<"lit","e">>, <<"lit","t">>, <<"end","">>>>, icase |-> FALSE],
  [toks |-> <<<<"star","any">>, <<"lit",".">>, <<"lit","g">>, <<"lit","i">>, <<"lit","t">>, <<"lit","h">>, <<"lit","u">>, <<"lit","b">>, <<"lit",".">>, <<"lit","i">>, <<"lit","o">>, <<"end","">>>>, icase |-> FALSE],
  [toks |-> <<<<"star","any">>, <<"lit",".">>, <<"lit","g">>, <<"lit","i">>, <<"lit","t">>, <<"lit","h">>, <<"lit","u">>, <<"lit","b">>, <<"lit","u">>, <<"lit","s">>, <<"lit","e">>, <<"lit","r">>, <<"lit","c">>, <<"lit","o">>, <<"lit","n">>, <<"lit","t">>, <<"lit","e">>, <<"lit","n">>, <<"lit","t">>, <<"lit",".">>, <<"lit","c">>, <<"lit","o">>, <<"lit","m">>, <<"end","">>>>, icase |-> FALSE],
  [toks |-> <<<<"lit","r">>, <<"lit","a">>, <<"lit","w">>, <<"lit",".">>, <<"lit","g">>, <<"lit","i">>, <<"lit","t">>, <<"lit","h">>, <<"lit","u">>, <<"lit","b">>, <<"lit","u">>, <<"lit","s">>, <<"lit","e">>, <<"lit","r">>, <<"lit","c">>, <<"lit","o">>, <<"lit","n">>, <<"lit","t">>, <<"lit","e">>, <<"lit","n">>, <<"lit","t">>, <<"lit",".">>, <<"lit","c">>, <<"lit","o">>, <<"lit","m">>, <<"end","">>>>, icase |-> FALSE],
  [toks |-> <<<<"lit","s">>, <<"lit","t">>, <<"lit","o">>, <<"lit","r">>, <<"lit","a">>, <<"lit","g">>, <<"lit","e">>, <<"lit",".">>, <<"lit","g">>, <<"lit","o">>, <<"lit","o">>, <<"lit","g">>, <<"lit","l">>, <<"lit","e">>, <<"lit","a">>, <<"lit","p">>, <<"lit","i">>, <<"lit","s">>, <<"lit",".">>, <<"lit","c">>, <<"lit","o">>, <<"lit","m">>, <<"end","">>>>, icase |-> FALSE],
  [toks |-> <<<<"star","any">>, <<"lit",".">>, <<"lit","s">>, <<"lit","t">>, <<"lit","o">>, <<"lit","r">>, <<"lit","a">>, <<"lit","g">>, <<"lit","e">>, <<"lit",".">>, <<"lit","g">>, <<"lit","o">>, <<"lit","o">>, <<"lit","g">>, <<"lit","l">>, <<"lit","e">>, <<"lit","a">>, <<"lit","p">>, <<"lit","i">>, <<"lit","s">>, <<"lit",".">>, <<"lit","c">>, <<"lit","o">>, <<"lit","m">>, <<"end","">>>>, icase |-> FALSE],
  [toks |-> <<<<"star","any">>, <<"lit",".">>, <<"lit","b">>, <<"lit","l">>, <<"lit","o">>, <<"lit","b">>, <<"lit",".">>, <<"lit","c">>, <<"lit","o">>, <<"lit","r">>, <<"lit","e">>, <<"lit",".">>, <<"lit","w">>, <<"lit","i">>, <<"lit","n">>, <<"lit","d">>, <<"lit","o">>, <<"lit","w">>, <<"lit","s">>, <<"lit",".">>, <<"lit","n">>, <<"lit","e">>, <<"lit","t">>, <<"end","">>>>, icase |-> FALSE],
  [toks |-> <<<<"star","any">>, <<"lit",".">>, <<"lit","c">>, <<"lit","d">>, <<"lit","n">>, <<"lit",".">>, <<"star","any">>, <<"end","">>>>, icase |-> FALSE],
  [toks |-> <<<<"lit","c">>, <<"lit","d">>, <<"lit","n">>, <<"lit",".">>, <<"star","any">>, <<"end","">>>>, icase |-> FALSE],
  [toks |-> <<<<"lit","d">>, <<"lit","a">>, <<"lit","t">>, <<"lit","a">>, <<"lit",".">>, <<"star","any">>, <<"end","">>>>, icase |-> FALSE],
  [toks |-> <<<<"lit","d">>, <<"lit","a">>, <<"lit","t">>, <<"lit","a">>, <<"lit","s">>, <<"lit","e">>, <<"lit","t">>, <<"lit","s">>, <<"lit",".">>, <<"star","any">>, <<"end","">>>>, icase |-> FALSE],
  [toks |-> <<<<"lit","d">>, <<"lit","o">>, <<"lit","w">>, <<"lit","n">>, <<"lit","l">>, <<"lit","o">>, <<"lit","a">>, <<"lit","d">>, <<"lit",".">>, <<"star","any">>, <<"end","">>>>, icase |-> FALSE] >>

\* pattern.replace(/\./g, '\\.').replace(/\*/g, '.*'), then
\* new RegExp(`^${escaped}$`, 'i')
SelfHosted_CompilePattern(pattern) ==
  LET escaped == ReplaceAll(ReplaceAll(pattern, <<".">>, <<"\\", ".">>), <<"*">>, <<".", "*">>)
  IN  RegExp(<<"^">> \o escaped \o <<"$">>, TRUE)

SelfHosted_parseAllowedDomains(domainsString) ==
  IF domainsString = None \/ domainsString[1] = <<>> \/ Trim(domainsString[1]) = <<>>
  THEN SelfHosted_DEFAULT_ALLOWED_DOMAINS
  ELSE LET segs == TrimmedSegments(Split(domainsString[1], ","))
       IN  [i \in DOMAIN segs |-> SelfHosted_CompilePattern(segs[i])]

(***************************************************************************)
(* State                                                                   *)
(***************************************************************************)

VARIABLES
  call,             \* a call of a pure function: its arguments and its result
  fe,               \* the front end that serves the request
  nodeEnv,          \* process.env.NODE_ENV
  config,           \* the front end's configuration, loaded from the environment
  req,              \* the inbound request: origin, target
  pc,               \* where the request's handling stands
  res,              \* the response to the client
  upstream,         \* the upstream exchange: what was fetched, what came back
  transferred,      \* let transferred: body bytes forwarded so far
  startedStreaming, \* let startedStreaming
  pending,          \* byteLength of the chunk that overflowed (0: none)
  chunksRead,       \* chunks read from the upstream body
  timer,            \* the request timeout: "unset", "armed", "cleared", "fired"
  clock,            \* time since the fetch was issued, in ticks
  trace,            \* the steps taken so far, in order
  console           \* what console.log / warn / error wrote

reqVars == <<fe, nodeEnv, config, req, pc, res, upstream, transferred,
             startedStreaming, pending, chunksRead, timer, clock, trace, console>>

vars == <<call, reqVars>>

\* Bounds of the model.
MaxChunks == 3

\* config.requestTimeoutMs, in ticks of the model's clock.
TimeoutTicks == 2

\* How far past the timeout the clock is followed.
MaxOvertime == 1

MaxClock == TimeoutTicks + MaxOvertime

FrontEnds == {"query", "path", "worker"}

SelfHosted == {"query", "path"}

NoCall == [fn |-> "none"]

(***************************************************************************)
(* The response object (Node's http.ServerResponse / Express's res; the    *)
(* worker's Response)                                                      *)
(***************************************************************************)

NoHeaders == <<>>

NewResponse ==
  [ statusCode  |-> 200,       \* res.statusCode
    headers     |-> NoHeaders, \* header name (lower case) -> value
    headersSent |-> FALSE,     \* status line and headers are on the wire
    written     |-> 0,         \* body bytes written by res.write
    payload     |-> None,      \* the JSON payload sent, if any
    proxied     |-> FALSE,     \* status and body are the upstream's
    fromRedirect |-> FALSE,    \* the body comes from a redirect target
    lateStatus  |-> None,      \* a status set after the headers were sent
    ended       |-> FALSE,     \* res.end() was called
    destroyed   |-> FALSE,     \* res.destroy() was called
    chunks      |-> <<>>,      \* the chunks res.write was given, in order
    buffered    |-> 0,         \* chunks written that the socket has not taken yet
    closedAt    |-> None ]     \* the client has gone: the chunks read by then

WithHeader(headers, name, value) == (name :> value) @@ headers

WithoutHeaders(headers, names) == [h \in (DOMAIN headers) \ names |-> headers[h]]

\* res.setHeader(name, value); callers check r.headersSent first: Node
\* throws ERR_HTTP_HEADERS_SENT once the headers are sent.
SetHeader(r, name, value) == [r EXCEPT !.headers = WithHeader(@, name, value)]

\* res.removeHeader for each name
RemoveHeaders(r, names) == [r EXCEPT !.headers = WithoutHeaders(@, names)]

\* res.status(code).json({ error }) before the headers are sent
Json(r, code, error) ==
  [r EXCEPT !.statusCode = code,
            !.headers = WithHeader(@, "content-type", <<"a","p","p","l","i","c","a","t","i","o","n","/","j","s","o","n">>),
            !.headersSent = TRUE,
            !.payload = Some(error),
            !.proxied = FALSE,
            !.ended = TRUE]

\* res.json(body) with the status left at 200
JsonOk(r, body) ==
  [r EXCEPT !.headers = WithHeader(@, "content-type", <<"a","p","p","l","i","c","a","t","i","o","n","/","j","s","o","n">>),
            !.headersSent = TRUE,
            !.payload = Some(body),
            !.ended = TRUE]

\* A write that loses the chunk: what res.write is compared with.
Write_Dropped(r, value) ==
  [r EXCEPT !.headersSent = TRUE, !.written = @ + value.byteLength]

\* res.write(value): the first write sends the status line and the headers.
\* The chunk is queued behind those the socket has not taken yet; the
\* return value (false: wait for 'drain') is the caller's to heed.  Once
\* the client has gone the chunk is discarded.
Write(r, value) ==
  IF r.closedAt # None
  THEN [r EXCEPT !.headersSent = TRUE, !.written = @ + value.byteLength]
  ELSE [r EXCEPT !.headersSent = TRUE, !.written = @ + value.byteLength,
                 !.chunks = Append(@, value), !.buffered = @ + 1]

\* res.end()
End(r) == [r EXCEPT !.headersSent = TRUE, !.ended = TRUE]

\* An error message { error: msg } with the value interpolated into it.
Err(msg, arg) == [msg |-> msg, arg |-> arg]

\* console.log / warn / error
Log(level, text, data) == [level |-> level, text |-> text, data |-> data]

(***************************************************************************)
(* Configuration                                                           *)
(***************************************************************************)

\* process.env.X || fallback
EnvOr(opt, fallback) == IF opt = None \/ opt[1] = <<>> THEN fallback ELSE opt[1]

\* parseInt of a configuration value that is a decimal number
IntOf(s) == parseInt(s)[1]

\* The self-hosted server's const config (both the query-form and the
\* path-form server load it the same way).  requestTimeoutMs is counted in
\* ticks of the model's clock.
ServerConfig(env) ==
  [ allowedOrigins   |-> << <<"h","t","t","p","s",":","/","/","a","p","p",".","p","o","n","d","p","i","l","o","t",".","i","o">>, <<"h","t","t","p",":","/","/","l","o","c","a","l","h","o","s","t",":","5","1","7","3">> >>,
    maxFileSizeMB    |-> IntOf(EnvOr(env.MAX_FILE_SIZE_MB, <<"5","0","0">>)),
    requestTimeoutMs |-> TimeoutTicks,
    httpsOnly        |-> env.HTTPS_ONLY # Some(<<"f","a","l","s","e">>),
    allowedProtocols |-> IF env.HTTPS_ONLY = Some(<<"f","a","l","s","e">>)
                         THEN << <<"h","t","t","p","s",":">>, <<"h","t","t","p",":">> >> ELSE << <<"h","t","t","p","s",":">> >>,
    allowedDomains   |-> parseAllowedDomains(Some(EnvOr(env.ALLOWED_DOMAINS, <<>>))),
    blockedDomains   |-> <<>>,
    rateLimiter      |-> TRUE ]

\* The worker's DEFAULT_CONFIG and getConfig(env).  The worker has no
\* allowlist, HTTPS-only flag or timeout; rateLimiter is whether the
\* RATE_LIMITER binding exists.
WorkerConfig(env) ==
  [ allowedOrigins   |-> << <<"h","t","t","p","s",":","/","/","a","p","p",".","p","o","n","d","p","i","l","o","t",".","i","o">>, <<"h","t","t","p",":","/","/","l","o","c","a","l","h","o","s","t",":","5","1","7","3">>,
                            <<"h","t","t","p",":","/","/","l","o","c","a","l","h","o","s","t",":","3","0","0","0">> >>,
    maxFileSizeMB    |-> IF env.MAX_FILE_SIZE_MB # None /\ env.MAX_FILE_SIZE_MB[1] # <<>>
                         THEN IntOf(env.MAX_FILE_SIZE_MB[1]) ELSE 500,
    requestTimeoutMs |-> 0,
    httpsOnly        |-> FALSE,
    allowedProtocols |-> << <<"h","t","t","p","s",":">>, <<"h","t","t","p",":">> >>,
    allowedDomains   |-> <<>>,
    blockedDomains   |-> IF env.BLOCKED_DOMAINS # None /\ env.BLOCKED_DOMAINS[1] # <<>>
                         THEN [i \in DOMAIN Split(env.BLOCKED_DOMAINS[1], ",") |->
                                 Trim(Split(env.BLOCKED_DOMAINS[1], ",")[i])]
                         ELSE <<>>,
    rateLimiter      |-> env.RATE_LIMITER ]

(***************************************************************************)
(* Inputs: environments, origins, targets, upstream behaviour              *)
(***************************************************************************)

ServerEnvs ==
  [ HTTPS_ONLY       : {None, Some(<<"f","a","l","s","e">>)},
    ALLOWED_DOMAINS  : {None, Some(<<"b","u","c","k","e","t",".","s","3",".","a","m","a","z","o","n","a","w","s",".","c","o","m",","," ","*",".","e","x","a","m","p","l","e",".","c","o","m">>)},
    MAX_FILE_SIZE_MB : {Some(<<"1">>), Some(<<"2">>)},
    BLOCKED_DOMAINS  : {None},
    RATE_LIMITER     : {TRUE} ]

WorkerEnvs ==
  [ HTTPS_ONLY       : {None},
    ALLOWED_DOMAINS  : {None},
    MAX_FILE_SIZE_MB : {Some(<<"1">>), Some(<<"2">>)},
    BLOCKED_DOMAINS  : {None, Some(<<"e","v","i","l",".","c","o","m">>)},
    RATE_LIMITER     : BOOLEAN ]

\* The Origin header: absent (or empty, which the code cannot tell from
\* absent), an allowed origin, an origin that is not in the list.
Origins == {None, Some(<<"h","t","t","p","s",":","/","/","a","p","p",".","p","o","n","d","p","i","l","o","t",".","i","o">>), Some(<<"h","t","t","p","s",":","/","/","e","v","i","l",".","e","x","a","m","p","l","e">>)}

\* GET /proxy?url=...: the url query parameter (None: missing).
QueryTargets ==
  { None,
    Some(<<"n","o","t","-","a","-","u","r","l">>),
    Some(<<"f","t","p",":","/","/","b","u","c","k","e","t",".","s","3",".","a","m","a","z","o","n","a","w","s",".","c","o","m","/","f",".","c","s","v">>),
    Some(<<"h","t","t","p",":","/","/","b","u","c","k","e","t",".","s","3",".","a","m","a","z","o","n","a","w","s",".","c","o","m","/","f",".","c","s","v">>),
    Some(<<"h","t","t","p","s",":","/","/","b","u","c","k","e","t",".","s","3",".","a","m","a","z","o","n","a","w","s",".","c","o","m","/","f",".","c","s","v">>),
    Some(<<"h","t","t","p","s",":","/","/","a","p","i",".","e","x","a","m","p","l","e",".","c","o","m","/","d","a","t","a",".","j","s","o","n">>),
    Some(<<"h","t","t","p",":","/","/","1","6","9",".","2","5","4",".","1","6","9",".","2","5","4","/","l","a","t","e","s","t","/","m","e","t","a","-","d","a","t","a","/">>),
    Some(<<"h","t","t","p","s",":","/","/","l","o","c","a","l","h","o","s","t","/","a","d","m","i","n">>),
    Some(<<"h","t","t","p","s",":","/","/","e","v","i","l",".","c","o","m","/","f",".","c","s","v">>) }

NoParams == [protocol |-> <<>>, host |-> <<>>, path |-> <<>>]

\* GET /proxy-path/:protocol/:host/*: req.params.  Express decodes each
\* parameter with decodeURIComponent, so a %2F in the host segment of the
\* request path arrives as a '/' in req.params.host.
PathTargets ==
  { [protocol |-> <<"h","t","t","p","s">>, host |-> <<"b","u","c","k","e","t",".","s","3",".","a","m","a","z","o","n","a","w","s",".","c","o","m">>, path |-> <<"d","a","t","a","/","f",".","d","u","c","k","d","b">>],
    [protocol |-> <<"H","T","T","P","S">>, host |-> <<"b","u","c","k","e","t",".","s","3",".","a","m","a","z","o","n","a","w","s",".","c","o","m">>, path |-> <<"d","a","t","a","/",".",".","/",".",".","/","e","t","c","/","/","p","a","s","s","w","d">>],
    [protocol |-> <<"h","t","t","p">>,  host |-> <<"b","u","c","k","e","t",".","s","3",".","a","m","a","z","o","n","a","w","s",".","c","o","m">>, path |-> <<"f",".","c","s","v">>],
    [protocol |-> <<"f","t","p">>,   host |-> <<"b","u","c","k","e","t",".","s","3",".","a","m","a","z","o","n","a","w","s",".","c","o","m">>, path |-> <<"f",".","c","s","v">>],
    [protocol |-> <<"h","t","t","p","s">>, host |-> <<"a","p","i",".","e","x","a","m","p","l","e",".","c","o","m">>, path |-> <<>>],
    [protocol |-> <<"h","t","t","p","s">>, host |-> <<"1","6","9",".","2","5","4",".","1","6","9",".","2","5","4">>, path |-> <<"l","a","t","e","s","t","/","m","e","t","a","-","d","a","t","a","/">>],
    [protocol |-> <<"h","t","t","p","s">>, host |-> <<"k","u","b","e","r","n","e","t","e","s",".","d","e","f","a","u","l","t">>, path |-> <<"a","p","i">>],
    [protocol |-> <<"h","t","t","p","s">>, host |-> <<"b","u","c","k","e","t",".","s","3",".","a","m","a","z","o","n","a","w","s",".","c","o","m","/","/",".",".">>, path |-> <<"f",".","c","s","v">>],
    [protocol |-> <<"h","t","t","p","s">>, host |-> <<"e","v","i","l",".","c","o","m">>, path |-> <<"f",".","c","s","v">>] }

\* The inbound requests: proxy requests in the front end's form, GET
\* /health, and OPTIONS on the proxy endpoint (route "options": the CORS
\* preflight).
Requests(f) ==
  (IF f = "path"
   THEN [origin : Origins, url : {None}, params : PathTargets, route : {"proxy"}]
   ELSE [origin : Origins, url : QueryTargets, params : {NoParams}, route : {"proxy"}])
  \cup [origin : Origins, url : {None}, params : {NoParams}, route : {"health", "options"}]

\* byteLength of the chunks the upstream body may deliver (the fetch
\* implementation never delivers an empty chunk).
ChunkSizes == {1, MB \div 2, MB + 1}

\* Response headers an upstream may send besides Content-Length.
UpstreamHeaderSets ==
  { ("content-type" :> <<"t","e","x","t","/","c","s","v">>),
    ("content-type" :> <<"t","e","x","t","/","c","s","v">>) @@ ("set-cookie" :> <<"s","i","d","=","1">>)
      @@ ("content-security-policy" :> <<"d","e","f","a","u","l","t","-","s","r","c"," ","*">>)
      @@ ("x-frame-options" :> <<"A","L","L","O","W","A","L","L">>) @@ ("referrer-policy" :> <<"u","n","s","a","f","e","-","u","r","l">>)
      @@ ("connection" :> <<"k","e","e","p","-","a","l","i","v","e">>) @@ ("transfer-encoding" :> <<"c","h","u","n","k","e","d">>) }

\* Content-Length values an upstream may declare (None: no header).
UpstreamContentLengths == {None, Some(<<"1","0","4","8","5","7","6">>), Some(<<"1","0","4","8","5","7","7">>)}

UpstreamStatuses == {200, 301, 404}

\* Where an upstream redirect may point.
RedirectTargets == { <<"h","t","t","p",":","/","/","1","6","9",".","2","5","4",".","1","6","9",".","2","5","4","/","l","a","t","e","s","t","/","m","e","t","a","-","d","a","t","a","/">> }

\* The upstream responses: status, headers, whether there is a body.
UpstreamResponses ==
  { [status |-> s, headers |-> IF cl = None THEN h ELSE WithHeader(h, "content-length", cl[1]),
     hasBody |-> b] :
      s \in UpstreamStatuses, h \in UpstreamHeaderSets, cl \in UpstreamContentLengths,
      b \in BOOLEAN }

NoUpstream ==
  [ fetched   |-> FALSE,   \* fetch() was called
    url       |-> <<>>,    \* with this URL
    redirect  |-> "",      \* its redirect mode: "manual" or "follow"
    followed  |-> FALSE,   \* the fetch followed a redirect
    responded |-> FALSE,   \* response headers have arrived
    status    |-> 0,
    headers   |-> NoHeaders,
    body      |-> <<>>,    \* the chunks reader.read() has delivered, in order
    cancelled |-> FALSE ]  \* the fetch was aborted or the body reader cancelled

(***************************************************************************)
(* The self-hosted server: src/unnamed/part_003 (query form, GET /proxy)   *)
(* and src/self-hosted/server.ts (path form, GET /proxy-path/...).  The    *)
(* two files share the middleware and everything after the target URL is   *)
(* known; they differ in how the target is found and in headersToForward.  *)
(***************************************************************************)

maxBytes == config.maxFileSizeMB * MB

Step(events) == trace' = trace \o events

\* An origin callback that accepts every origin that is present: what the
\* origin check is compared with.
CorsOriginAllowed_AnyOrigin(origin, env, allowedOrigins) ==
  \/ origin = None /\ env # "production"
  \/ origin # None

\* corsOptions.origin: whether the callback accepts the request's origin.
CorsOriginAllowed(origin, env, allowedOrigins) ==
  \/ origin = None /\ env # "production"
  \/ origin # None /\ SeqIncludes(allowedOrigins, origin[1])

ExposedHeaders == <<"C","o","n","t","e","n","t","-","L","e","n","g","t","h",","," ","C","o","n","t","e","n","t","-","R","a","n","g","e",","," ","C","o","n","t","e","n","t","-","T","y","p","e",","," ","A","c","c","e","p","t","-","R","a","n","g","e","s",","," ","E","T","a","g",","," ","L","a","s","t","-","M","o","d","i","f","i","e","d">>

\* The headers the cors middleware sets on a request it lets through: the
\* request's origin is echoed when there is one.
CorsHeaders(r, origin) ==
  LET common == SetHeader(SetHeader(r, "vary", <<"O","r","i","g","i","n">>),
                          "access-control-expose-headers", ExposedHeaders)
  IN  IF origin = None THEN common
      ELSE SetHeader(common, "access-control-allow-origin", origin[1])

\* A pipeline without the rate limiter: what the order of the checks is
\* compared with.
AfterOriginCheck_NoLimiter(limiterBound) == "route"

\* Where a proxy request goes once its origin is accepted: to the rate
\* limiter (app.use('/proxy', limiter); the worker's env.RATE_LIMITER when
\* it is bound), else straight to the handler.
AfterOriginCheck(limiterBound) == IF limiterBound THEN "limiter" ELSE "route"

\* app.use(cors(corsOptions)), and the error handler that answers the
\* callback's 'Not allowed by CORS' error.
CorsMiddleware ==
  /\ pc = "received"
  /\ fe \in SelfHosted
  /\ req.route # "options"
  /\ IF CorsOriginAllowed(req.origin, nodeEnv, config.allowedOrigins)
     THEN /\ res' = CorsHeaders(res, req.origin)
          /\ pc' = IF req.route = "proxy" THEN AfterOriginCheck(config.rateLimiter) ELSE "route"
          /\ Step(<<"origin-ok">>)
          /\ UNCHANGED console
     ELSE /\ console' = Append(console, Log("error", "Error:", <<"N","o","t"," ","a","l","l","o","w","e","d"," ","b","y"," ","C","O","R","S">>))
          /\ res' = Json(res, 403, Err("Origin not allowed", <<>>))
          /\ pc' = "done"
          /\ Step(<<"origin-rejected">>)
  /\ UNCHANGED <<call, fe, nodeEnv, config, req, upstream, transferred,
                 startedStreaming, pending, chunksRead, timer, clock>>

\* app.use(cors(corsOptions)) on an OPTIONS request.  The middleware
\* answers the preflight itself (preflightContinue is off): the origin
\* when the request has one, the methods, the allowed headers, the max
\* age and the exposed headers, status 204; server.ts's app.options
\* handler, registered after it, is not reached.  An origin the callback
\* refuses goes to the error handler as for any other request.
CorsPreflight ==
  /\ pc = "received"
  /\ fe \in SelfHosted
  /\ req.route = "options"
  /\ IF CorsOriginAllowed(req.origin, nodeEnv, config.allowedOrigins)
     THEN /\ res' = [End(SetHeader(SetHeader(SetHeader(CorsHeaders(res, req.origin),
                        "access-control-allow-methods", <<"G","E","T",",","H","E","A","D",",","O","P","T","I","O","N","S">>),
                        "access-control-allow-headers", <<"C","o","n","t","e","n","t","-","T","y","p","e",",","R","a","n","g","e">>),
                        "access-control-max-age", <<"8","6","4","0","0">>))
                      EXCEPT !.statusCode = 204]
          /\ Step(<<"origin-ok", "preflight">>)
          /\ UNCHANGED console
     ELSE /\ console' = Append(console, Log("error", "Error:", <<"N","o","t"," ","a","l","l","o","w","e","d"," ","b","y"," ","C","O","R","S">>))
          /\ res' = Json(res, 403, Err("Origin not allowed", <<>>))
          /\ Step(<<"origin-rejected">>)
  /\ pc' = "done"
  /\ UNCHANGED <<call, fe, nodeEnv, config, req, upstream, transferred,
                 startedStreaming, pending, chunksRead, timer, clock>>

\* app.use('/proxy', limiter) / app.use('/proxy-path', limiter): the rate
\* limiter is an external collaborator; it lets the request through or
\* answers 429.
RateLimiter ==
  /\ pc = "limiter"
  /\ fe \in SelfHosted
  /\ \E success \in BOOLEAN :
       IF success
       THEN /\ pc' = "route"
            /\ Step(<<"rate-ok">>)
            /\ UNCHANGED res
       ELSE /\ res' = Json(res, 429, Err("Rate limit exceeded. Please try again later.", <<>>))
            /\ pc' = "done"
            /\ Step(<<"rate-limited">>)
  /\ UNCHANGED <<call, fe, nodeEnv, config, req, upstream, transferred,
                 startedStreaming, pending, chunksRead, timer, clock, console>>

\* The request-logging middleware (only when NODE_ENV is not production):
\* console.log(`${req.method} ${req.path}`, { origin, ip }).
RequestLog(path) ==
  IF nodeEnv # "production" THEN <<Log("log", "GET ${req.path}", path)>> ELSE <<>>

\* app.get('/health'): registered after the cors middleware, outside the
\* rate limiter's mount path.
HealthHandler ==
  /\ pc = "route"
  /\ fe \in SelfHosted
  /\ req.route = "health"
  /\ res' = JsonOk(res, [status |-> "ok"])
  /\ pc' = "done"
  /\ console' = console \o RequestLog(<<"/","h","e","a","l","t","h">>)
  /\ Step(<<"health">>)
  /\ UNCHANGED <<call, fe, nodeEnv, config, req, upstream, transferred,
                 startedStreaming, pending, chunksRead, timer, clock>>

\* The SecurityConfig the handlers pass to validateTargetUrl.
SecurityConfigOf(c) ==
  [ allowedDomains   |-> Some(c.allowedDomains),
    allowedProtocols |-> Some(c.allowedProtocols),
    httpsOnly        |-> c.httpsOnly ]

\* From validateTargetUrl to the fetch call, for target URL targetUrl,
\* with r the response and logs the console as the handler has left them.
ValidateAndFetch(targetUrl, r, logs) ==
  LET validation == validateTargetUrl(targetUrl, SecurityConfigOf(config))
  IN  /\ console' = logs
      /\ IF ~validation.valid
         THEN /\ res' = Json(r, 403, validation.error)
              /\ pc' = "done"
              /\ Step(<<"target-extracted", "validate-failed">>)
              /\ UNCHANGED <<upstream, timer, clock>>
         ELSE \* setTimeout(() => controller.abort(), config.requestTimeoutMs);
              \* fetch(targetUrl, { redirect: 'manual', signal })
              /\ res' = r
              /\ timer' = "armed"
              /\ clock' = 0
              /\ upstream' = [NoUpstream EXCEPT !.fetched = TRUE, !.url = targetUrl,
                                                !.redirect = "manual"]
              /\ pc' = "fetching"
              /\ Step(<<"target-extracted", "validate-ok", "fetch">>)

\* app.get('/proxy', ...) up to its first await.
ProxyHandler ==
  /\ pc = "route"
  /\ fe = "query"
  /\ req.route = "proxy"
  /\ IF req.url = None \/ req.url[1] = <<>>
     THEN /\ res' = Json(res, 400, Err("Missing url parameter", <<>>))
          /\ pc' = "done"
          /\ console' = console \o RequestLog(<<"/","p","r","o","x","y">>)
          /\ Step(<<"target-missing">>)
          /\ UNCHANGED <<upstream, timer, clock>>
     ELSE ValidateAndFetch(req.url[1], res, console \o RequestLog(<<"/","p","r","o","x","y">>))
  /\ UNCHANGED <<call, fe, nodeEnv, config, req, transferred, startedStreaming,
                 pending, chunksRead>>

\* The path-form handler's own list of internal hosts.
internalHostPatterns == <<
  [toks |-> <<<<"lit","l">>, <<"lit","o">>, <<"lit","c">>, <<"lit","a">>, <<"lit","l">>, <<"lit","h">>, <<"lit","o">>, <<"lit","s">>, <<"lit","t">>, <<"end","">>>>, icase |-> TRUE],
  [toks |-> <<<<"lit","1">>, <<"lit","2">>, <<"lit","7">>, <<"lit",".">>>>, icase |-> FALSE],
  [toks |-> <<<<"lit","1">>, <<"lit","0">>, <<"lit",".">>>>, icase |-> FALSE],
  [toks |-> <<<<"lit","1">>, <<"lit","7">>, <<"lit","2">>, <<"lit",".">>, <<"lit","1">>, <<"set","6-9">>, <<"lit",".">>>>, icase |-> FALSE],
  [toks |-> <<<<"lit","1">>, <<"lit","7">>, <<"lit","2">>, <<"lit",".">>, <<"lit","2">>, <<"set","0-9">>, <<"lit",".">>>>, icase |-> FALSE],
  [toks |-> <<<<"lit","1">>, <<"lit","7">>, <<"lit","2">>, <<"lit",".">>, <<"lit","3">>, <<"set","01">>, <<"lit",".">>>>, icase |-> FALSE],
  [toks |-> <<<<"lit","1">>, <<"lit","9">>, <<"lit","2">>, <<"lit",".">>, <<"lit","1">>, <<"lit","6">>, <<"lit","8">>, <<"lit",".">>>>, icase |-> FALSE],
  [toks |-> <<<<"lit","1">>, <<"lit","6">>, <<"lit","9">>, <<"lit",".">>, <<"lit","2">>, <<"lit","5">>, <<"lit","4">>, <<"lit",".">>>>, icase |-> FALSE],
  [toks |-> <<<<"lit",":">>, <<"lit",":">>, <<"lit","1">>, <<"end","">>>>, icase |-> FALSE],
  [toks |-> <<<<"lit","f">>, <<"lit","e">>, <<"lit","8">>, <<"lit","0">>, <<"lit",":">>>>, icase |-> TRUE],
  [toks |-> <<<<"lit","f">>, <<"lit","c">>, <<"lit","0">>, <<"lit","0">>, <<"lit",":">>>>, icase |-> TRUE],
  [toks |-> <<<<"lit","m">>, <<"lit","e">>, <<"lit","t">>, <<"lit","a">>, <<"lit","d">>, <<"lit","a">>, <<"lit","t">>, <<"lit","a">>, <<"lit",".">>, <<"lit","g">>, <<"lit","o">>, <<"lit","o">>, <<"lit","g">>, <<"lit","l">>, <<"lit","e">>, <<"lit",".">>, <<"lit","i">>, <<"lit","n">>, <<"lit","t">>, <<"lit","e">>, <<"lit","r">>, <<"lit","n">>, <<"lit","a">>, <<"lit","l">>, <<"end","">>>>, icase |-> TRUE],
  [toks |-> <<<<"lit","1">>, <<"lit","6">>, <<"lit","9">>, <<"lit",".">>, <<"lit","2">>, <<"lit","5">>, <<"lit","4">>, <<"lit",".">>, <<"lit","1">>, <<"lit","6">>, <<"lit","9">>, <<"lit",".">>, <<"lit","2">>, <<"lit","5">>, <<"lit","4">>, <<"end","">>>>, icase |-> FALSE] >>

\* path.replace(/\.\./g, '').replace(/\/+/g, '/').replace(/^\//, '')
sanitizedPath(path) ==
  LET noDots  == ReplaceAll(path, <<".", ".">>, <<>>)
      oneSlash == CollapseRuns(noDots, "/")
  IN  IF oneSlash # <<>> /\ Head(oneSlash) = "/" THEN Tail(oneSlash) ELSE oneSlash

\* `${protocol}://${host}/${sanitizedPath}`
ReconstructedUrl(params) ==
  params.protocol \o <<":","/","/">> \o params.host \o <<"/">> \o sanitizedPath(params.path)

\* req.path of a path-form request
RequestPath(params) ==
  <<"/","p","r","o","x","y","-","p","a","t","h","/">> \o params.protocol \o <<"/">> \o params.host \o <<"/">> \o params.path

\* The CORS headers the path-form handler sets itself.
PathCorsHeaders(r, origin, allowedOrigins) ==
  IF origin # None /\ SeqIncludes(allowedOrigins, origin[1])
  THEN SetHeader(SetHeader(SetHeader(SetHeader(SetHeader(r,
         "access-control-allow-origin", origin[1]),
         "access-control-allow-methods", <<"G","E","T",","," ","H","E","A","D",","," ","O","P","T","I","O","N","S">>),
         "access-control-allow-headers", <<"C","o","n","t","e","n","t","-","T","y","p","e",","," ","R","a","n","g","e">>),
         "access-control-expose-headers", ExposedHeaders),
         "vary", <<"O","r","i","g","i","n">>)
  ELSE r

\* app.get('/proxy-path/:protocol/:host/*', ...) up to its first await.
ProxyPathHandler ==
  /\ pc = "route"
  /\ fe = "path"
  /\ req.route = "proxy"
  /\ LET protocol == req.params.protocol
         host     == req.params.host
         logs     == console \o RequestLog(RequestPath(req.params))
     IN  IF toLowerCase(protocol) \notin { <<"h","t","t","p">>, <<"h","t","t","p","s">> }
         THEN /\ res' = Json(res, 400, Err("Invalid protocol. Only http and https are allowed.", <<>>))
              /\ pc' = "done"
              /\ console' = logs
              /\ Step(<<"protocol-rejected">>)
              /\ UNCHANGED <<upstream, timer, clock>>
         ELSE IF SomeTest(internalHostPatterns, host)
         THEN /\ res' = Json(res, 403, Err("Access to internal/private addresses is not allowed.", <<>>))
              /\ pc' = "done"
              /\ console' = logs
              /\ Step(<<"host-rejected">>)
              /\ UNCHANGED <<upstream, timer, clock>>
         ELSE ValidateAndFetch(ReconstructedUrl(req.params),
                               PathCorsHeaders(res, req.origin, config.allowedOrigins), logs)
  /\ UNCHANGED <<call, fe, nodeEnv, config, req, transferred, startedStreaming,
                 pending, chunksRead>>

\* const headersToForward (the path form also forwards content-length)
headersToForward(f) ==
  IF f = "path"
  THEN {"content-type", "content-range", "content-length", "accept-ranges", "etag", "last-modified"}
  ELSE {"content-type", "content-range", "accept-ranges", "etag", "last-modified"}

\* headersToForward.forEach(h => value && res.setHeader(h, value)), then
\* X-Proxy-By, Cache-Control, res.status(fetchResponse.status)
StageResponse(r, response, names) ==
  LET copied == [h \in (DOMAIN response.headers) \cap names |-> response.headers[h]]
  IN  [r EXCEPT !.headers = ("x-proxy-by" :> <<"P","o","n","d","P","i","l","o","t","-","C","O","R","S","-","P","r","o","x","y">>)
                            @@ ("cache-control" :> <<"p","u","b","l","i","c",","," ","m","a","x","-","a","g","e","=","3","6","0","0">>)
                            @@ copied @@ @,
                !.statusCode = response.status,
                !.proxied = TRUE]

\* The fetch promise resolves with the upstream's response (a 3xx comes
\* back as it is: redirect: 'manual'); the handler runs on to its next
\* await: clearTimeout, validateResponse, the headers, the status.
FetchResolved ==
  /\ pc = "fetching"
  /\ fe \in SelfHosted
  /\ \E response \in UpstreamResponses :
       LET responseValidation == validateResponse(response, config.maxFileSizeMB)
       IN  /\ upstream' = [upstream EXCEPT !.responded = TRUE, !.status = response.status,
                                           !.headers = response.headers]
           /\ IF ~responseValidation.valid
              THEN /\ res' = Json(res, 400, responseValidation.error)
                   /\ pc' = "done"
                   /\ Step(<<"response", "response-rejected">>)
              ELSE IF response.hasBody
              THEN /\ res' = StageResponse(res, response, headersToForward(fe))
                   /\ pc' = "reading"
                   /\ Step(<<"response", "response-ok">>)
              ELSE /\ res' = End(StageResponse(res, response, headersToForward(fe)))
                   /\ pc' = "done"
                   /\ Step(<<"response", "response-ok", "end">>)
  /\ timer' = "cleared"
  /\ UNCHANGED <<call, fe, nodeEnv, config, req, transferred, startedStreaming,
                 pending, chunksRead, clock, console>>

\* An error of the handler's try block reaches its catch block: a 504 for
\* an AbortError, else console.error and a 502.  Once the headers are sent
\* res.json throws ERR_HTTP_HEADERS_SENT and the handler's promise is
\* rejected.  What becomes of the rejection depends on the Express
\* release the build resolves: Express 4 ignores the promise (an unhandled
\* rejection, the response is left as it is); Express 5 passes the error
\* to the error handler, whose res.json throws as well, and the final
\* handler then destroys the socket.
CatchBlock(r, logs, abortError) ==
  IF ~r.headersSent
  THEN /\ console' = IF abortError THEN logs
                     ELSE Append(logs, Log("error", "Proxy error:", <<>>))
       /\ res' = IF abortError
                 THEN Json(r, 504, Err("Request timeout - the remote server took too long to respond", <<>>))
                 ELSE Json(r, 502, Err("Failed to fetch resource", <<>>))
       /\ pc' = "done"
  ELSE \E forwarded \in BOOLEAN :
         IF forwarded
         THEN /\ console' = logs \o (IF abortError THEN <<>> ELSE <<Log("error", "Proxy error:", <<>>)>>)
                                 \o <<Log("error", "Error:", <<"C","a","n","n","o","t"," ","s","e","t"," ","h","e","a","d","e","r","s"," ","a","f","t","e","r"," ","t","h","e","y"," ","a","r","e"," ","s","e","n","t"," ","t","o"," ","t","h","e"," ","c","l","i","e","n","t">>)>>
              /\ res' = [r EXCEPT !.lateStatus = Some(500), !.destroyed = TRUE]
              /\ pc' = "done"
         ELSE /\ console' = logs \o (IF abortError THEN <<>> ELSE <<Log("error", "Proxy error:", <<>>)>>)
              /\ res' = [r EXCEPT !.lateStatus = Some(IF abortError THEN 504 ELSE 502)]
              /\ pc' = "rejected"

\* The fetch promise rejects: the upstream cannot be reached.
FetchRejected ==
  /\ pc = "fetching"
  /\ fe \in SelfHosted
  /\ timer' = "cleared"
  /\ CatchBlock(res, console, FALSE)
  /\ Step(<<"fetch-failed">>)
  /\ UNCHANGED <<call, fe, nodeEnv, config, req, upstream, transferred,
                 startedStreaming, pending, chunksRead, clock>>

\* The timeout's callback: controller.abort() rejects the pending fetch
\* with an AbortError.  The timer is armed only while the fetch promise is
\* pending: the finally block clears it as soon as the promise settles.
TimerFires ==
  /\ timer = "armed"
  /\ clock >= config.requestTimeoutMs
  /\ pc = "fetching"
  /\ timer' = "fired"
  /\ upstream' = [upstream EXCEPT !.cancelled = TRUE]
  /\ CatchBlock(res, console, TRUE)
  /\ Step(<<"timeout">>)
  /\ UNCHANGED <<call, fe, nodeEnv, config, req, transferred, startedStreaming,
                 pending, chunksRead, clock>>

\* Time passes while the handler awaits the upstream.  An armed timer
\* fires when it is due: time does not pass it by.
Tick ==
  /\ pc \in {"fetching", "reading", "cancelling"}
  /\ fe \in SelfHosted
  /\ clock < MaxClock
  /\ ~(timer = "armed" /\ clock >= config.requestTimeoutMs)
  /\ clock' = clock + 1
  /\ UNCHANGED <<call, fe, nodeEnv, config, req, pc, res, upstream, transferred,
                 startedStreaming, pending, chunksRead, timer, trace, console>>

\* A size test that looks only at what was already forwarded: what the
\* loop's test is compared with.
Overflows_AlreadyOver(total, byteLength, limit) == total > limit

\* if (transferred + value.byteLength > maxBytes)
Overflows(total, byteLength, limit) == total + byteLength > limit

\* reader.read() resolves with a chunk of n bytes; the loop body runs to
\* the next await: either reader.cancel (the chunk would pass the limit)
\* or the next reader.read().
ReadChunk ==
  /\ pc = "reading"
  /\ chunksRead < MaxChunks
  /\ \E n \in ChunkSizes :
       LET value == [seq |-> chunksRead + 1, byteLength |-> n]
       IN  IF Overflows(transferred, n, maxBytes)
           THEN /\ upstream' = [upstream EXCEPT !.cancelled = TRUE, !.body = Append(@, value)]
                /\ pending' = n
                /\ pc' = "cancelling"
                /\ Step(<<"read", "overflow", "cancel">>)
                /\ UNCHANGED <<res, transferred, startedStreaming>>
           ELSE /\ transferred' = transferred + n
                /\ res' = Write(res, value)
                /\ upstream' = [upstream EXCEPT !.body = Append(@, value)]
                /\ startedStreaming' = TRUE
                /\ Step(<<"read", "write">>)
                /\ UNCHANGED <<pc, pending>>
  /\ chunksRead' = chunksRead + 1
  /\ UNCHANGED <<call, fe, nodeEnv, config, req, timer, clock, console>>

\* After await reader.cancel('File too large'): console.warn, then the
\* 413 if nothing was written yet, else Connection: close and res.destroy.
\* res.setHeader throws ERR_HTTP_HEADERS_SENT once the headers are sent,
\* and the error is caught by the handler's catch block.
OverflowAbort ==
  /\ pc = "cancelling"
  /\ LET warned == Append(console, Log("warn", "Aborting response over size limit from ${targetUrl}", upstream.url))
     IN  IF ~startedStreaming
         THEN /\ res' = Json(SetHeader(RemoveHeaders(res, headersToForward(fe)),
                                       "cache-control", <<"n","o","-","s","t","o","r","e">>),
                             413, Err("File too large", <<>>))
              /\ pc' = "done"
              /\ console' = warned
              /\ Step(<<"413">>)
         ELSE IF res.headersSent
         THEN /\ CatchBlock(res, warned, FALSE)
              /\ Step(<<"setHeader-throws", "catch">>)
         ELSE /\ res' = [SetHeader(res, "connection", <<"c","l","o","s","e">>) EXCEPT !.destroyed = TRUE]
              /\ pc' = "done"
              /\ console' = warned
              /\ Step(<<"destroy">>)
  /\ UNCHANGED <<call, fe, nodeEnv, config, req, upstream, transferred,
                 startedStreaming, pending, chunksRead, timer, clock>>

\* The socket takes the oldest chunk waiting in the response's write
\* queue: the client has read on.  Nothing in the handler waits for it.
Drain ==
  /\ fe \in SelfHosted
  /\ res.buffered > 0
  /\ res.closedAt = None
  /\ ~res.destroyed
  /\ res' = [res EXCEPT !.buffered = @ - 1]
  /\ UNCHANGED <<call, fe, nodeEnv, config, req, pc, upstream, transferred,
                 startedStreaming, pending, chunksRead, timer, clock, trace, console>>

\* The client closes the connection while the handler awaits the upstream
\* (the fetch or a read).  The handler registers no 'close' listener on
\* req or res and its AbortController is reached by the timeout alone:
\* nothing of the handler runs.
ClientDisconnects ==
  /\ fe \in SelfHosted
  /\ pc \in {"fetching", "reading"}
  /\ res.closedAt = None
  /\ res' = [res EXCEPT !.closedAt = Some(chunksRead), !.buffered = 0]
  /\ UNCHANGED <<call, fe, nodeEnv, config, req, pc, upstream, transferred,
                 startedStreaming, pending, chunksRead, timer, clock, trace, console>>

\* reader.read() resolves with done: res.end().
ReadDone ==
  /\ pc = "reading"
  /\ res' = End(res)
  /\ pc' = "done"
  /\ Step(<<"end">>)
  /\ UNCHANGED <<call, fe, nodeEnv, config, req, upstream, transferred,
                 startedStreaming, pending, chunksRead, timer, clock, console>>

\* reader.read() rejects: the upstream connection failed in mid-body.
ReadFailed ==
  /\ pc = "reading"
  /\ CatchBlock(res, console, FALSE)
  /\ Step(<<"read-failed", "catch">>)
  /\ UNCHANGED <<call, fe, nodeEnv, config, req, upstream, transferred,
                 startedStreaming, pending, chunksRead, timer, clock>>

(***************************************************************************)
(* The Cloudflare worker: src/cloudflare-worker/worker.ts, handleProxy     *)
(***************************************************************************)

\* String.prototype.endsWith
EndsWith(s, suffix) ==
  /\ Len(suffix) <= Len(s)
  /\ SubSeq(s, Len(s) - Len(suffix) + 1, Len(s)) = suffix

\* corsError(message, origin, status)
corsError(error, origin, status) ==
  [NewResponse EXCEPT
     !.statusCode = status,
     !.headers = ("content-type" :> <<"a","p","p","l","i","c","a","t","i","o","n","/","j","s","o","n">>)
                 @@ ("access-control-allow-origin" :> IF origin = None \/ origin[1] = <<>>
                                                        THEN <<"*">> ELSE origin[1])
                 @@ ("access-control-allow-methods" :> <<"G","E","T",","," ","H","E","A","D",","," ","O","P","T","I","O","N","S">>),
     !.headersSent = TRUE,
     !.payload = Some(error),
     !.ended = TRUE]

\* jsonResponse(data): status 200
jsonResponse(body) ==
  [NewResponse EXCEPT
     !.headers = ("content-type" :> <<"a","p","p","l","i","c","a","t","i","o","n","/","j","s","o","n">>) @@ ("cache-control" :> <<"n","o","-","c","a","c","h","e">>),
     !.headersSent = TRUE,
     !.payload = Some(body),
     !.ended = TRUE]

\* fetch(request, env, ctx): the /health route, answered by the router
\* before handleProxy.
WorkerHealth ==
  /\ pc = "received"
  /\ fe = "worker"
  /\ req.route = "health"
  /\ res' = jsonResponse([status |-> "ok"])
  /\ pc' = "done"
  /\ Step(<<"health">>)
  /\ UNCHANGED <<call, fe, nodeEnv, config, req, upstream, transferred,
                 startedStreaming, pending, chunksRead, timer, clock, console>>

\* handlePreflight: the router's answer to an OPTIONS request.
WorkerPreflight ==
  /\ pc = "received"
  /\ fe = "worker"
  /\ req.route = "options"
  /\ IF req.origin = None \/ ~SeqIncludes(config.allowedOrigins, req.origin[1])
     THEN /\ res' = [NewResponse EXCEPT !.statusCode = 403, !.headersSent = TRUE,
                                        !.ended = TRUE]
          /\ Step(<<"origin-rejected">>)
     ELSE /\ res' = End(SetHeader(SetHeader(SetHeader(SetHeader(NewResponse,
                        "access-control-allow-origin", req.origin[1]),
                        "access-control-allow-methods", <<"G","E","T",","," ","H","E","A","D",","," ","O","P","T","I","O","N","S">>),
                        "access-control-allow-headers", <<"C","o","n","t","e","n","t","-","T","y","p","e",","," ","R","a","n","g","e">>),
                        "access-control-max-age", <<"8","6","4","0","0">>))
          /\ Step(<<"origin-ok", "preflight">>)
  /\ pc' = "done"
  /\ UNCHANGED <<call, fe, nodeEnv, config, req, upstream, transferred,
                 startedStreaming, pending, chunksRead, timer, clock, console>>

\* handleProxy: the origin check, up to the rate limiter's await.
WorkerValidateOrigin ==
  /\ pc = "received"
  /\ fe = "worker"
  /\ req.route = "proxy"
  /\ IF req.origin = None \/ ~SeqIncludes(config.allowedOrigins, req.origin[1])
     THEN /\ res' = corsError(Err("Origin not allowed", <<>>), req.origin, 403)
          /\ pc' = "done"
          /\ Step(<<"origin-rejected">>)
     ELSE /\ pc' = AfterOriginCheck(config.rateLimiter)
          /\ Step(<<"origin-ok">>)
          /\ UNCHANGED res
  /\ UNCHANGED <<call, fe, nodeEnv, config, req, upstream, transferred,
                 startedStreaming, pending, chunksRead, timer, clock, console>>

\* await env.RATE_LIMITER.limit({ key }) resolves.
WorkerRateLimit ==
  /\ pc = "limiter"
  /\ fe = "worker"
  /\ \E success \in BOOLEAN :
       IF success
       THEN /\ pc' = "route"
            /\ Step(<<"rate-ok">>)
            /\ UNCHANGED res
       ELSE /\ res' = corsError(Err("Rate limit exceeded", <<>>), req.origin, 429)
            /\ pc' = "done"
            /\ Step(<<"rate-limited">>)
  /\ UNCHANGED <<call, fe, nodeEnv, config, req, upstream, transferred,
                 startedStreaming, pending, chunksRead, timer, clock, console>>

\* handleProxy from the url parameter to the fetch call.  The worker
\* parses the URL, checks its protocol and the blocked domains; it does
\* not call validateTargetUrl, and its fetch has no redirect option and
\* no abort signal.
WorkerProxy ==
  /\ pc = "route"
  /\ fe = "worker"
  /\ LET targetUrl    == req.url
         parsedTarget == URLParse(targetUrl[1])
         Reject(error, status, events) ==
           /\ res' = corsError(error, req.origin, status)
           /\ pc' = "done"
           /\ Step(events)
           /\ UNCHANGED upstream
     IN  IF targetUrl = None \/ targetUrl[1] = <<>>
         THEN Reject(Err("Missing url parameter", <<>>), 400, <<"target-missing">>)
         ELSE IF ~parsedTarget.ok
         THEN Reject(Err("Invalid URL", <<>>), 400, <<"target-extracted", "parse-failed">>)
         ELSE IF ~SeqIncludes(config.allowedProtocols, parsedTarget.protocol)
         THEN Reject(Err("Protocol ${protocol} not allowed", parsedTarget.protocol), 400,
                     <<"target-extracted", "protocol-rejected">>)
         ELSE IF \E i \in DOMAIN config.blockedDomains :
                   EndsWith(parsedTarget.hostname, config.blockedDomains[i])
         THEN Reject(Err("Domain is blocked", <<>>), 403, <<"target-extracted", "domain-blocked">>)
         ELSE /\ upstream' = [NoUpstream EXCEPT !.fetched = TRUE, !.url = targetUrl[1],
                                                !.redirect = "follow"]
              /\ pc' = "fetching"
              /\ Step(<<"target-extracted", "fetch">>)
              /\ UNCHANGED res
  /\ UNCHANGED <<call, fe, nodeEnv, config, req, transferred, startedStreaming,
                 pending, chunksRead, timer, clock, console>>

\* The upstream answers the worker's fetch with a redirect: fetch's
\* default redirect mode is 'follow', so it requests the Location itself.
WorkerFetchFollows ==
  /\ pc = "fetching"
  /\ fe = "worker"
  /\ upstream.redirect = "follow"
  /\ ~upstream.followed
  /\ \E location \in RedirectTargets :
       upstream' = [upstream EXCEPT !.followed = TRUE, !.url = location]
  /\ Step(<<"redirect-followed">>)
  /\ UNCHANGED <<call, fe, nodeEnv, config, req, pc, res, transferred,
                 startedStreaming, pending, chunksRead, timer, clock, console>>

\* new Headers(targetResponse.headers) with the CORS, cache and proxy
\* headers set on top.
WorkerResponseHeaders(headers, origin) ==
  ("access-control-allow-origin" :> origin)
  @@ ("access-control-allow-methods" :> <<"G","E","T",","," ","H","E","A","D",","," ","O","P","T","I","O","N","S">>)
  @@ ("access-control-allow-headers" :> <<"C","o","n","t","e","n","t","-","T","y","p","e",","," ","R","a","n","g","e">>)
  @@ ("access-control-expose-headers" :> <<"C","o","n","t","e","n","t","-","L","e","n","g","t","h",","," ","C","o","n","t","e","n","t","-","R","a","n","g","e",","," ","C","o","n","t","e","n","t","-","T","y","p","e">>)
  @@ ("cache-control" :> <<"p","u","b","l","i","c",","," ","m","a","x","-","a","g","e","=","3","6","0","0">>)
  @@ ("x-proxy-by" :> <<"P","o","n","d","P","i","l","o","t","-","C","O","R","S","-","P","r","o","x","y">>)
  @@ headers

\* The worker's fetch resolves: the Content-Length check, then the
\* upstream's status, headers and body are handed to the client.
WorkerFetchResolved ==
  /\ pc = "fetching"
  /\ fe = "worker"
  /\ \E targetResponse \in UpstreamResponses :
       LET contentLength == HeaderGet(targetResponse.headers, "content-length")
       IN  /\ upstream' = [upstream EXCEPT !.responded = TRUE,
                                           !.status = targetResponse.status,
                                           !.headers = targetResponse.headers]
           /\ IF /\ contentLength # None
                 /\ contentLength[1] # <<>>
                 /\ parseInt(contentLength[1]) # None
                 /\ parseInt(contentLength[1])[1] > config.maxFileSizeMB * MB
              THEN /\ res' = corsError(Err("File too large", contentLength[1]), req.origin, 413)
                   /\ Step(<<"response", "response-rejected">>)
              ELSE /\ res' = [NewResponse EXCEPT
                                !.statusCode = targetResponse.status,
                                !.headers = WorkerResponseHeaders(targetResponse.headers, req.origin[1]),
                                !.headersSent = TRUE,
                                !.proxied = TRUE,
                                !.fromRedirect = upstream.followed,
                                !.ended = TRUE]
                   /\ Step(<<"response", "response-ok">>)
  /\ pc' = "done"
  /\ UNCHANGED <<call, fe, nodeEnv, config, req, transferred, startedStreaming,
                 pending, chunksRead, timer, clock, console>>

\* The worker's fetch rejects.
WorkerFetchRejected ==
  /\ pc = "fetching"
  /\ fe = "worker"
  /\ console' = Append(console, Log("error", "Fetch error:", <<>>))
  /\ res' = corsError(Err("Failed to fetch resource", <<>>), req.origin, 502)
  /\ pc' = "done"
  /\ Step(<<"fetch-failed">>)
  /\ UNCHANGED <<call, fe, nodeEnv, config, req, upstream, transferred,
                 startedStreaming, pending, chunksRead, timer, clock>>

(***************************************************************************)
(* One request, from its arrival to its outcome                            *)
(***************************************************************************)

NodeEnvs == {"development", "production"}

Init ==
  /\ call = NoCall
  /\ fe \in FrontEnds
  /\ nodeEnv \in (IF fe = "worker" THEN {"production"} ELSE NodeEnvs)
  /\ config \in (IF fe = "worker" THEN {WorkerConfig(env) : env \in WorkerEnvs}
                                   ELSE {ServerConfig(env) : env \in ServerEnvs})
  /\ req \in Requests(fe)
  /\ pc = "received"
  /\ res = NewResponse
  /\ upstream = NoUpstream
  /\ transferred = 0
  /\ startedStreaming = FALSE
  /\ pending = 0
  /\ chunksRead = 0
  /\ timer = "unset"
  /\ clock = 0
  /\ trace = <<>>
  /\ console = <<>>

Next ==
  \/ CorsMiddleware
  \/ CorsPreflight
  \/ WorkerPreflight
  \/ RateLimiter
  \/ HealthHandler
  \/ WorkerHealth
  \/ ProxyHandler
  \/ ProxyPathHandler
  \/ FetchResolved
  \/ FetchRejected
  \/ TimerFires
  \/ Tick
  \/ ReadChunk
  \/ OverflowAbort
  \/ ReadDone
  \/ ReadFailed
  \/ WorkerValidateOrigin
  \/ WorkerRateLimit
  \/ WorkerProxy
  \/ WorkerFetchFollows
  \/ WorkerFetchResolved
  \/ WorkerFetchRejected

Spec == Init /\ [][Next]_vars

(***************************************************************************)
(* The self-hosted server with its client: requests that pass every check  *)
(* and are fetched, the socket taking the chunks written to the response   *)
(* at its own pace, and the client free to close the connection.           *)
(***************************************************************************)

StreamEnvs ==
  [ HTTPS_ONLY       : {None},
    ALLOWED_DOMAINS  : {None},
    MAX_FILE_SIZE_MB : {Some(<<"1">>), Some(<<"2">>)},
    BLOCKED_DOMAINS  : {None},
    RATE_LIMITER     : {TRUE} ]

InitStream ==
  /\ Init
  /\ fe \in SelfHosted
  /\ nodeEnv = "production"
  /\ config \in {ServerConfig(env) : env \in StreamEnvs}
  /\ req.route = "proxy"
  /\ req.origin = Some(<<"h","t","t","p","s",":","/","/","a","p","p",".","p","o","n","d","p","i","l","o","t",".","i","o">>)
  /\ fe = "query" => req.url = Some(<<"h","t","t","p","s",":","/","/","b","u","c","k","e","t",".","s","3",".","a","m","a","z","o","n","a","w","s",".","c","o","m","/","f",".","c","s","v">>)
  /\ fe = "path" => req.params = [protocol |-> <<"h","t","t","p","s">>, host |-> <<"b","u","c","k","e","t",".","s","3",".","a","m","a","z","o","n","a","w","s",".","c","o","m">>,
                                  path |-> <<"d","a","t","a","/","f",".","d","u","c","k","d","b">>]

NextStream ==
  \/ CorsMiddleware
  \/ RateLimiter
  \/ ProxyHandler
  \/ ProxyPathHandler
  \/ FetchResolved
  \/ FetchRejected
  \/ TimerFires
  \/ Tick
  \/ ReadChunk
  \/ Drain
  \/ ClientDisconnects
  \/ OverflowAbort
  \/ ReadDone
  \/ ReadFailed

SpecStream == InitStream /\ [][NextStream]_vars

(***************************************************************************)
(* Calls of the security library's pure functions.  The request's          *)
(* variables rest at their idle values while a call is examined.           *)
(***************************************************************************)

Idle ==
  /\ fe = "query"
  /\ nodeEnv = "production"
  /\ config = ServerConfig([HTTPS_ONLY |-> None, ALLOWED_DOMAINS |-> None,
                            MAX_FILE_SIZE_MB |-> None, BLOCKED_DOMAINS |-> None,
                            RATE_LIMITER |-> TRUE])
  /\ req = [origin |-> None, url |-> None, params |-> NoParams, route |-> "proxy"]
  /\ pc = "idle"
  /\ res = NewResponse
  /\ upstream = NoUpstream
  /\ transferred = 0
  /\ startedStreaming = FALSE
  /\ pending = 0
  /\ chunksRead = 0
  /\ timer = "unset"
  /\ clock = 0
  /\ trace = <<>>
  /\ console = <<>>

\* The two copies of the security utilities in the repository.
Impls == {"shared", "self-hosted"}

\* Values of ALLOWED_DOMAINS handed to parseAllowedDomains (None: undefined).
DomainStrings ==
  { None,
    Some(<<>>),
    Some(<<" "," "," ">>),
    Some(<<",">>),
    Some(<<" ",","," ">>),
    Some(<<"*","*","*","*">>),
    Some(<<"*",".","*",".","e","x","a","m","p","l","e",".","c","o","m">>),
    Some(<<"*",".","e","x","a","m","p","l","e",".","c","o","m">>),
    Some(<<"e","x","a","m","p","l","e",".","c","o","m">>),
    Some(<<" "," ","e","x","a","m","p","l","e",".","c","o","m"," "," ",","," "," ","t","e","s","t",".","o","r","g"," "," ">>),
    Some(<<"v","a","l","i","d",".","c","o","m",",","*","*","*","*",",","g","o","o","d",".","o","r","g">>),
    Some(<<"a","*","b","*","c","*","d",".","c","o","m",",","a","*","b","*","c","*","d","*","e",".","c","o","m",",","*",".","*",".","e","x","a","m","p","l","e",".","c","o","m",",","g","o","o","d",".","o","r","g">>),
    Some(<<"a","a","a","a","a","a","a","a","a","a","a","a","a","a","a","a","a","a","a","a","a","a","a","a","a","a","a","a","a","a","a","a","a","a","a","a","a","a","a","a","a","a","a","a","a","a","a","a","a","a","a","a","a","a","a","a","a","a","a","a","a","a","a","a","a","a","a","a","a","a","a","a","a","a","a","a","a","a","a","a","a","a","a","a","a","a","a","a","a","a","a","a","a","a","a","a",".","c","o","m",",","v","a","l","i","d",".","c","o","m">>),
    Some(<<"a","a","a","a","a","a","a","a","a","a","a","a","a","a","a","a","a","a","a","a","a","a","a","a","a","a","a","a","a","a","a","a","a","a","a","a","a","a","a","a","a","a","a","a","a","a","a","a","a","a","a","a","a","a","a","a","a","a","a","a","a","a","a","a","a","a","a","a","a","a","a","a","a","a","a","a","a","a","a","a","a","a","a","a","a","a","a","a","a","a","a","a","a","a","a","a","a",".","c","o","m",",","v","a","l","i","d",".","c","o","m">>) }

\* Segments with regular-expression syntax in them.  The shared copy
\* escapes all of it; the older copy escapes only '.', so there the rest
\* would reach new RegExp as syntax (groups, alternation) that the
\* regular expressions modelled here do not have: the older copy is given
\* DomainStrings only.
SpecialCharacterStrings == { Some(<<"a","+","b","(","c",")",".","c","o","m",",","[","x","]","$","^","{","y","}","|","z","?",".","o","r","g">>) }

\* Hostnames the compiled matchers are tried on.
ProbeHostnames ==
  { <<"a","p","i",".","e","x","a","m","p","l","e",".","c","o","m">>, <<"t","e","s","t",".","e","x","a","m","p","l","e",".","c","o","m">>, <<"a",".","b",".","e","x","a","m","p","l","e",".","c","o","m">>, <<"e","x","a","m","p","l","e",".","c","o","m">>,
    <<".","e","x","a","m","p","l","e",".","c","o","m">>, <<"A","P","I",".","E","X","A","M","P","L","E",".","C","O","M">>, <<"a","p","i","X","e","x","a","m","p","l","e",".","c","o","m">>, <<"e","v","i","l",".","c","o","m">>,
    <<"t","e","s","t",".","o","r","g">>, <<"g","o","o","d",".","o","r","g">>, <<"a","p","i",".","v","1",".","e","x","a","m","p","l","e",".","c","o","m">>, <<"x",".","y",".","z",".","e","x","a","m","p","l","e",".","c","o","m">>,
    <<"v","a","l","i","d",".","c","o","m">>, <<"a","x","b","x","c","x","d",".","c","o","m">>, <<"a","+","b","(","c",")",".","c","o","m">> }

DefaultsOf(impl) ==
  IF impl = "shared" THEN DEFAULT_ALLOWED_DOMAINS ELSE SelfHosted_DEFAULT_ALLOWED_DOMAINS

InitCompile ==
  /\ call \in [ fn : {"parseAllowedDomains"}, impl : Impls, domainsString : DomainStrings,
                hostname : ProbeHostnames, result : {<<>>}, matches : {<<>>}, done : {FALSE} ]
           \cup
               [ fn : {"parseAllowedDomains"}, impl : {"shared"},
                 domainsString : SpecialCharacterStrings,
                 hostname : ProbeHostnames, result : {<<>>}, matches : {<<>>}, done : {FALSE} ]
  /\ Idle

\* parseAllowedDomains(domainsString), then pattern.test(hostname) on each
\* matcher it returned.
ParseAllowedDomainsCall ==
  /\ call.fn = "parseAllowedDomains"
  /\ ~call.done
  /\ LET patterns == IF call.impl = "shared"
                     THEN parseAllowedDomains(call.domainsString)
                     ELSE SelfHosted_parseAllowedDomains(call.domainsString)
     IN  call' = [call EXCEPT !.result = patterns,
                              !.matches = [i \in DOMAIN patterns |-> Test(patterns[i], call.hostname)],
                              !.done = TRUE]
  /\ UNCHANGED reqVars

NextCompile == ParseAllowedDomainsCall

SpecCompile == InitCompile /\ [][NextCompile]_vars

\* Target URLs handed to validateTargetUrl.
ValidatorTargets ==
  { <<"n","o","t","-","a","-","u","r","l">>,
    <<"h","t","t","p","s",":","/","/","b","u","c","k","e","t",".","s","3",".","a","m","a","z","o","n","a","w","s",".","c","o","m","/","f","i","l","e">>,
    <<"h","t","t","p",":","/","/","b","u","c","k","e","t",".","s","3",".","a","m","a","z","o","n","a","w","s",".","c","o","m","/","f","i","l","e">>,
    <<"h","t","t","p","s",":","/","/","e","v","i","l",".","c","o","m","/","f","i","l","e">>,
    <<"f","t","p",":","/","/","b","u","c","k","e","t",".","s","3",".","a","m","a","z","o","n","a","w","s",".","c","o","m","/","f","i","l","e">>,
    <<"f","t","p",":","/","/","l","o","c","a","l","h","o","s","t","/","f","i","l","e">>,
    <<"h","t","t","p","s",":","/","/","l","o","c","a","l","h","o","s","t","/","f","i","l","e">>,
    <<"h","t","t","p",":","/","/","L","O","C","A","L","H","O","S","T",":","8","0","8","0","/","a","d","m","i","n">>,
    <<"h","t","t","p","s",":","/","/","1","2","7",".","0",".","0",".","1","/">>,
    <<"h","t","t","p",":","/","/","1","6","9",".","2","5","4",".","1","6","9",".","2","5","4","/","l","a","t","e","s","t","/","m","e","t","a","-","d","a","t","a","/">>,
    <<"h","t","t","p","s",":","/","/","m","e","t","a","d","a","t","a",".","g","o","o","g","l","e",".","i","n","t","e","r","n","a","l","/","c","o","m","p","u","t","e","M","e","t","a","d","a","t","a","/","v","1","/">>,
    <<"h","t","t","p","s",":","/","/","1","0",".","0",".","0",".","1","/">>,
    <<"h","t","t","p","s",":","/","/","1","7","2",".","1","6",".","0",".","1","/">>,
    <<"h","t","t","p","s",":","/","/","1","9","2",".","1","6","8",".","1",".","1","/">>,
    <<"h","t","t","p","s",":","/","/","8",".","8",".","8",".","8","/">>,
    <<"h","t","t","p","s",":","/","/","[",":",":","1","]","/">>,
    <<"h","t","t","p",":","/","/","[","f","c","0","0",":",":","1","]","/">>,
    <<"h","t","t","p","s",":","/","/","[","f","e","8","0",":",":","1","]","/">>,
    <<"h","t","t","p","s",":","/","/","[","2","0","0","1",":","d","b","8",":",":","1","]","/">> }

\* Allowlists a SecurityConfig may carry: none (the default applies), one
\* that accepts every dot-free name and several internal hosts by name, one
\* that accepts two public hosts.
ValidatorAllowlists ==
  { None,
    Some(parseAllowedDomains(Some(<<"*",",","1","2","7",".","0",".","0",".","1",",","1","6","9",".","2","5","4",".","1","6","9",".","2","5","4",",","m","e","t","a","d","a","t","a",".","g","o","o","g","l","e",".","i","n","t","e","r","n","a","l",",","1","0",".","0",".","0",".","1",",","b","u","c","k","e","t",".","s","3",".","a","m","a","z","o","n","a","w","s",".","c","o","m">>))),
    Some(parseAllowedDomains(Some(<<"e","x","a","m","p","l","e",".","c","o","m",",","*",".","s","3",".","a","m","a","z","o","n","a","w","s",".","c","o","m">>))) }

SecurityConfigs ==
  [ allowedDomains   : ValidatorAllowlists,
    allowedProtocols : {None, Some(<< <<"h","t","t","p","s",":">> >>), Some(<< <<"h","t","t","p","s",":">>, <<"h","t","t","p",":">> >>)},
    httpsOnly        : BOOLEAN ]

InitValidate ==
  /\ call \in [ fn : {"validateTargetUrl"}, targetUrl : ValidatorTargets,
                config : SecurityConfigs, result : {Valid}, done : {FALSE} ]
  /\ Idle

\* validateTargetUrl(targetUrl, config)
ValidateTargetUrlCall ==
  /\ call.fn = "validateTargetUrl"
  /\ ~call.done
  /\ call' = [call EXCEPT !.result = validateTargetUrl(call.targetUrl, call.config),
                          !.done = TRUE]
  /\ UNCHANGED reqVars

NextValidate == ValidateTargetUrlCall

SpecValidate == InitValidate /\ [][NextValidate]_vars

\* Statuses of the responses handed to validateResponse.
ValidatorStatuses == {200, 204, 206, 299, 300, 301, 302, 304, 307, 399, 400, 404, 500}

\* Their Content-Length header (None: absent).
ValidatorContentLengths ==
  { None, Some(<<>>), Some(<<"a","b","c">>), Some(<<"0">>), Some(<<"1","0","0","0">>), Some(<<"1","0","4","8","5","7","5">>),
    Some(<<"1","0","4","8","5","7","6">>), Some(<<"1","0","4","8","5","7","7">>), Some(<<"2","0","9","7","1","5","2">>), Some(<<"2","0","9","7","1","5","3">>),
    Some(<<"1","0","4","8","5","7","6","0">>) }

\* maxFileSizeMB
ValidatorLimits == {1, 2, 5}

ValidatorResponses ==
  { [status |-> s,
     headers |-> IF cl = None THEN NoHeaders ELSE WithHeader(NoHeaders, "content-length", cl[1]),
     hasBody |-> TRUE] :
      s \in ValidatorStatuses, cl \in ValidatorContentLengths }

InitResponse ==
  /\ call \in [ fn : {"validateResponse"}, response : ValidatorResponses,
                maxFileSizeMB : ValidatorLimits, result : {Valid}, done : {FALSE} ]
  /\ Idle

\* validateResponse(response, maxFileSizeMB)
ValidateResponseCall ==
  /\ call.fn = "validateResponse"
  /\ ~call.done
  /\ call' = [call EXCEPT !.result = validateResponse(call.response, call.maxFileSizeMB),
                          !.done = TRUE]
  /\ UNCHANGED reqVars

NextResponse == ValidateResponseCall

SpecResponse == InitResponse /\ [][NextResponse]_vars


\* Hostnames handed to isPrivateIP: dotted quads a.b.0.1 with a and b at
\* both sides of each range's limits, IPv6 literals, broadcast and names.
PrivateIPProbes ==
  LET first  == { <<"0">>, <<"1">>, <<"8">>, <<"9">>, <<"1","0">>, <<"1","1">>, <<"1","2","6">>, <<"1","2","7">>, <<"1","2","8">>,
                  <<"1","6","8">>, <<"1","6","9">>, <<"1","7","0">>, <<"1","7","1">>, <<"1","7","2">>, <<"1","7","3">>, <<"1","9","1">>, <<"1","9","2">>,
                  <<"1","9","3">>, <<"2","2","3">>, <<"2","2","4">>, <<"2","2","5">>, <<"2","3","0">>, <<"2","3","9">>, <<"2","4","0">>, <<"2","4","1">>,
                  <<"2","5","0">>, <<"2","5","4">>, <<"2","5","5">> }
      second == { <<"0">>, <<"1","5">>, <<"1","6">>, <<"2","0">>, <<"3","1">>, <<"3","2">>, <<"1","6","7">>, <<"1","6","8">>, <<"1","6","9">>,
                  <<"2","5","3">>, <<"2","5","4">>, <<"2","5","5">> }
  IN  { a \o <<".">> \o b \o <<".","0",".","1">> : a \in first, b \in second }
      \cup
      { <<"2","5","5",".","2","5","5",".","2","5","5",".","2","5","5">>, <<":",":","1">>, <<":",":","2">>, <<"f","e","8","0",":",":","1">>, <<"f","e","9","0",":",":","1">>, <<"f","e","a","0",":",":","1">>,
        <<"f","e","b","f",":",":","1">>, <<"f","e","c","0",":",":","1">>, <<"f","c","0","0",":",":","1">>, <<"f","c","1","2",":",":","1">>, <<"f","d","0","0",":",":","1">>, <<"f","d","1","2",":","3","4","5","6",":",":","1">>,
        <<"f","e","0","0",":",":","1">>, <<"2","0","0","1",":","d","b","8",":",":","1">>, <<"l","o","c","a","l","h","o","s","t">>, <<"e","x","a","m","p","l","e",".","c","o","m">> }

InitPrivateIP ==
  /\ call \in [ fn : {"isPrivateIP"}, hostname : PrivateIPProbes, result : {FALSE},
                done : {FALSE} ]
  /\ Idle

\* isPrivateIP(hostname)
IsPrivateIPCall ==
  /\ call.fn = "isPrivateIP"
  /\ ~call.done
  /\ call' = [call EXCEPT !.result = isPrivateIP(call.hostname), !.done = TRUE]
  /\ UNCHANGED reqVars

NextPrivateIP == IsPrivateIPCall

SpecPrivateIP == InitPrivateIP /\ [][NextPrivateIP]_vars

\* The two validators side by side: a call of either.
InitValidators == InitValidate \/ InitResponse

NextValidators == ValidateTargetUrlCall \/ ValidateResponseCall

SpecValidators == InitValidators /\ [][NextValidators]_vars

(***************************************************************************)
(* Properties of validateTargetUrl (under SpecValidate)                    *)
(***************************************************************************)

\* The host of a parsed URL as it is written in the URL: an IPv6 literal
\* without its brackets.
HostLiteral(hostname) ==
  IF Len(hostname) >= 2 /\ Head(hostname) = "[" /\ hostname[Len(hostname)] = "]"
  THEN SubSeq(hostname, 2, Len(hostname) - 1)
  ELSE hostname

IsDottedQuad(h) ==
  LET parts == Split(h, ".")
  IN  /\ Len(parts) = 4
      /\ \A i \in 1..4 : parts[i] # <<>> /\ Range(parts[i]) \subseteq Digits

Octet(h, i) == DigitsValue(Split(h, ".")[i], 0)

\* Loopback, private, link-local and "this network" IPv4 literals.
InternalIPv4(h) ==
  /\ IsDottedQuad(h)
  /\ \/ Octet(h, 1) \in {0, 10, 127}
     \/ Octet(h, 1) = 172 /\ Octet(h, 2) \in 16..31
     \/ Octet(h, 1) = 192 /\ Octet(h, 2) = 168
     \/ Octet(h, 1) = 169 /\ Octet(h, 2) = 254

\* The IPv6 loopback, unique-local (fc00::/7) and link-local (fe80::/10)
\* literals.
InternalIPv6(h) ==
  LET l == toLowerCase(h)
  IN  /\ Includes(l, <<":">>)
      /\ \/ l = <<":",":","1">>
         \/ StartsWith(l, <<"f","c">>) \/ StartsWith(l, <<"f","d">>)
         \/ \E c \in {"8", "9", "a", "b"} : StartsWith(l, <<"f", "e", c>>)

InternalHost(h) ==
  \/ toLowerCase(h) \in BLOCKED_HOSTNAMES
  \/ InternalIPv4(h)
  \/ InternalIPv6(h)

ValidateDone == call.fn = "validateTargetUrl" /\ call.done

\* C1: a target URL whose host is a blocked hostname or a loopback,
\* private, link-local or unique-local IP literal (IPv4 or IPv6) is never
\* valid, whatever the SecurityConfig and its allowlist.
C1_InternalHostsRejected ==
  ValidateDone =>
    LET parsed == URLParse(call.targetUrl)
    IN  parsed.ok /\ InternalHost(HostLiteral(parsed.hostname)) => ~call.result.valid

\* The five checks of the validator, each on its own.
ParseOk(u) == URLParse(u).ok

ProtocolOk(u, c) ==
  SeqIncludes(OrElse(c.allowedProtocols, DefaultProtocols), URLParse(u).protocol)

HttpsOk(u, c) == c.httpsOnly => URLParse(u).protocol = <<"h","t","t","p","s",":">>

GuardOk(u) == ~isPrivateIP(URLParse(u).hostname)

AllowlistOk(u, c) ==
  isAllowedDomain(URLParse(u).hostname, OrElse(c.allowedDomains, DEFAULT_ALLOWED_DOMAINS))

\* The error of the first check that fails, in the order parse, protocol,
\* HTTPS-only, SSRF guard, allowlist ("" when none fails).
FirstFailure(u, c) ==
  IF ~ParseOk(u) THEN "Invalid URL format"
  ELSE IF ~ProtocolOk(u, c) THEN "Protocol ... not allowed"
  ELSE IF ~HttpsOk(u, c) THEN "Only HTTPS URLs are allowed"
  ELSE IF ~GuardOk(u) THEN "Access to private/internal IP addresses is not allowed"
  ELSE IF ~AllowlistOk(u, c) THEN "Domain ... is not in the allowlist"
  ELSE ""

\* C10: validateTargetUrl reports the error of the first failing check in
\* the order parse, protocol, HTTPS-only, SSRF guard, allowlist, and is
\* valid only when all five checks pass.
C10_FirstFailingCheckReported ==
  ValidateDone =>
    LET u == call.targetUrl
        c == call.config
    IN  /\ call.result.valid <=> FirstFailure(u, c) = ""
        /\ call.result.valid <=>
             ParseOk(u) /\ ProtocolOk(u, c) /\ HttpsOk(u, c) /\ GuardOk(u) /\ AllowlistOk(u, c)
        /\ ~call.result.valid => call.result.error.msg = FirstFailure(u, c)

\* A URL that fails both the protocol check and the SSRF guard got the
\* protocol error.
C10_Witness_ProtocolBeforeGuard ==
  /\ ValidateDone
  /\ ParseOk(call.targetUrl)
  /\ ~ProtocolOk(call.targetUrl, call.config)
  /\ ~GuardOk(call.targetUrl)
  /\ ~call.result.valid
  /\ call.result.error.msg = "Protocol ... not allowed"

(***************************************************************************)
(* Properties of parseAllowedDomains (under SpecCompile)                   *)
(***************************************************************************)

CompileDone == call.fn = "parseAllowedDomains" /\ call.done

\* The non-empty trimmed segments of a domains string.
SegmentsOf(ds) == IF ds = None THEN <<>> ELSE TrimmedSegments(Split(ds[1], ","))

\* A pattern whose labels are each a lone '*' or free of '*'.
WholeLabelWildcards(p) ==
  \A i \in DOMAIN Split(p, ".") :
    Split(p, ".")[i] = <<"*">> \/ ~Includes(Split(p, ".")[i], <<"*">>)

\* Matching label by label: a '*' label matches one non-empty label, any
\* other label matches itself (in any letter case).
LabelwiseMatch(p, h) ==
  LET pl == Split(p, ".")
      hl == Split(h, ".")
  IN  /\ Len(pl) = Len(hl)
      /\ \A i \in DOMAIN pl :
           IF pl[i] = <<"*">> THEN hl[i] # <<>>
           ELSE toLowerCase(pl[i]) = toLowerCase(hl[i])

\* C5: in a matcher compiled by parseAllowedDomains each '*' matches
\* exactly one non-empty dot-free label: *.example.com matches
\* api.example.com, but not a.b.example.com, example.com or .example.com.
C5_WildcardMatchesOneLabel ==
  CompileDone =>
    LET segs == SegmentsOf(call.domainsString)
    IN  Len(segs) = 1 /\ WholeLabelWildcards(segs[1]) /\ CountChar(segs[1], "*") <= 1
        => /\ Len(call.matches) = 1
           /\ call.matches[1] <=> LabelwiseMatch(segs[1], call.hostname)

\* A segment that parseAllowedDomains drops: the shared copy drops the
\* patterns that validatePatternComplexity rejects, the older copy none.
Rejected(impl, seg) == impl = "shared" /\ ~validatePatternComplexity(seg).valid

NoSegmentKept(impl, ds) ==
  \A i \in DOMAIN SegmentsOf(ds) : Rejected(impl, SegmentsOf(ds)[i])

\* C6: parseAllowedDomains never returns an empty matcher set: for
\* undefined, empty or blank input, for input of empty segments only and
\* for input whose every segment is rejected it returns the default set,
\* otherwise one matcher for each segment it kept.
C6_NeverEmptyMatcherSet ==
  CompileDone =>
    /\ call.result # <<>>
    /\ IF NoSegmentKept(call.impl, call.domainsString)
       THEN call.result = DefaultsOf(call.impl)
       ELSE Len(call.result) =
              Cardinality({i \in DOMAIN SegmentsOf(call.domainsString) :
                             ~Rejected(call.impl, SegmentsOf(call.domainsString)[i])})

(***************************************************************************)
(* Properties of one request (under Spec)                                  *)
(***************************************************************************)

\* The target URL of the request, as the front end hands it to fetch.
TargetOf(f, r) == IF f = "path" THEN ReconstructedUrl(r.params) ELSE r.url[1]

\* Event a comes before event b in the steps taken so far.
Precedes(a, b) ==
  \E i, j \in DOMAIN trace : i < j /\ trace[i] = a /\ trace[j] = b

\* C2: in every front end the upstream fetch is issued only after the URL
\* validator has returned valid for the request's target: its protocol is
\* allowed and its host passes the SSRF guard.
C2_FetchOnlyAfterValidation ==
  upstream.fetched =>
    /\ Precedes("validate-ok", "fetch")
    /\ URLParse(TargetOf(fe, req)).ok
    /\ SeqIncludes(config.allowedProtocols, URLParse(TargetOf(fe, req)).protocol)
    /\ ~isPrivateIP(URLParse(TargetOf(fe, req)).hostname)

Redirections == 300..399

\* C3: the upstream fetch never follows a redirect, and the client never
\* receives a proxied 3xx response or content fetched from the target of
\* a redirect.
C3_RedirectsNeverFollowed ==
  /\ ~upstream.followed
  /\ res.proxied /\ res.headersSent =>
       res.statusCode \notin Redirections /\ ~res.fromRedirect

\* The request carries an Origin that is not in the allowed-origins list.
UnlistedOrigin ==
  req.route = "proxy" /\ req.origin # None /\ ~SeqIncludes(config.allowedOrigins, req.origin[1])

\* C4: a proxy request with an unlisted Origin is answered 403 before the
\* target URL is extracted, parsed or validated, and nothing is fetched.
C4_UnlistedOriginRejectedFirst ==
  UnlistedOrigin =>
    /\ pc \in {"received", "done"}
    /\ trace \in {<<>>, <<"origin-rejected">>}
    /\ ~upstream.fetched
    /\ pc = "done" => res.statusCode = 403 /\ res.payload # None /\ ~res.proxied

\* An unlisted origin has been answered.
C4_Witness_UnlistedOriginGot403 ==
  /\ UnlistedOrigin
  /\ pc = "done"
  /\ res.statusCode = 403
  /\ trace = <<"origin-rejected">>

\* The counter and the bytes written, in every state of a self-hosted
\* request.
CounterMatchesWritten ==
  fe \in SelfHosted /\ pc # "idle" =>
    /\ transferred = res.written
    /\ transferred <= config.maxFileSizeMB * 1024 * 1024

\* C7: in the streaming loop the transferred-byte counter equals the body
\* bytes written to the client, never decreases and never passes
\* maxFileSizeMB * 1024 * 1024: a chunk that would pass the limit is not
\* written.
C7_CounterBoundsWrittenBytes ==
  /\ []CounterMatchesWritten
  /\ [][transferred' >= transferred /\ res'.written >= res.written]_vars

\* A chunk was refused when the counter stood exactly at the limit.
C7_Witness_RefusedAtLimit ==
  /\ fe \in SelfHosted
  /\ pc = "cancelling"
  /\ pending > 0
  /\ transferred = config.maxFileSizeMB * 1024 * 1024
  /\ res.written = transferred

\* C8: when a chunk would pass the limit the reader is cancelled and no
\* further chunk is read or written; with nothing written yet the staged
\* upstream headers are removed, Cache-Control is no-store and the answer
\* is a 413 with an error payload; with body bytes already written no
\* status or payload is sent and the connection is destroyed.
C8_OverflowOutcome ==
  fe \in SelfHosted /\ pending > 0 /\ pc \in {"done", "rejected"} =>
    /\ upstream.cancelled
    /\ trace[Len(trace) - 1] # "read" /\ trace[Len(trace)] \notin {"read", "write"}
    /\ IF res.written = 0
       THEN /\ res.statusCode = 413
            /\ res.payload # None
            /\ HeaderGet(res.headers, "cache-control") = Some(<<"n","o","-","s","t","o","r","e">>)
            /\ (DOMAIN res.headers) \cap (headersToForward(fe) \ {"content-type"}) = {}
            /\ HeaderGet(res.headers, "content-type") = Some(<<"a","p","p","l","i","c","a","t","i","o","n","/","j","s","o","n">>)
       ELSE /\ res.payload = None
            /\ res.destroyed

\* C9: the request timeout bounds the whole upstream exchange: once the
\* timeout has elapsed with the exchange unfinished (waiting for the
\* headers or reading the body) the upstream request is cancelled and the
\* client gets a 504.
C9_TimeoutBoundsWholeFetch ==
  fe \in SelfHosted /\ upstream.fetched /\ clock > config.requestTimeoutMs =>
    /\ upstream.cancelled
    /\ res.statusCode = 504

(***************************************************************************)
(* Properties of validateResponse (under SpecResponse)                     *)
(***************************************************************************)

ResponseDone == call.fn = "validateResponse" /\ call.done

\* The length a response declares, in bytes: None when it has no
\* Content-Length or one that is not a decimal number.
DeclaredBytes(response) ==
  LET cl == HeaderGet(response.headers, "content-length")
  IN  IF cl = None \/ cl[1] = <<>> \/ ~(Range(cl[1]) \subseteq Digits)
      THEN None
      ELSE Some(DigitsValue(cl[1], 0))

\* C11: validateResponse rejects every status in [300, 400) with the
\* redirect error, whatever the Content-Length: the redirect check comes
\* before the size check.
C11_RedirectRejectedWhateverSize ==
  ResponseDone /\ call.response.status \in 300..399 =>
    /\ ~call.result.valid
    /\ call.result.error.msg = "Redirects are not supported for security reasons"

\* A redirect that also declares a length over the limit got the redirect
\* error.
C11_Witness_OversizeRedirect ==
  /\ ResponseDone
  /\ call.response.status \in 300..399
  /\ DeclaredBytes(call.response) # None
  /\ DeclaredBytes(call.response)[1] > call.maxFileSizeMB * 1024 * 1024
  /\ call.result.error.msg = "Redirects are not supported for security reasons"

\* C12: for a status outside [300, 400) validateResponse is invalid iff a
\* Content-Length is declared and exceeds maxFileSizeMB * 1,048,576 bytes;
\* a length equal to the limit, and an absent Content-Length, are valid.
C12_SizeRejectedIffOverLimit ==
  ResponseDone /\ call.response.status \notin 300..399 =>
    /\ ~call.result.valid <=>
         /\ DeclaredBytes(call.response) # None
         /\ DeclaredBytes(call.response)[1] > call.maxFileSizeMB * 1024 * 1024
    /\ ~call.result.valid => call.result.error.msg = "File too large"

\* A declared length exactly at the limit was accepted.
C12_Witness_ExactLimitAccepted ==
  /\ ResponseDone
  /\ call.response.status = 200
  /\ DeclaredBytes(call.response) = Some(call.maxFileSizeMB * 1024 * 1024)
  /\ call.result.valid

(***************************************************************************)
(* Properties of the responses and of the order of the checks (under Spec) *)
(***************************************************************************)

Happened(a) == \E i \in DOMAIN trace : trace[i] = a

\* C13: no response carries Access-Control-Allow-Origin: *; when the
\* header is present its value is the request's Origin, and that Origin
\* is in the allowed-origins list.
C13_AllowOriginEchoesAllowedOrigin ==
  res.headersSent =>
    LET acao == HeaderGet(res.headers, "access-control-allow-origin")
    IN  acao # None =>
          /\ acao[1] # <<"*">>
          /\ req.origin = Some(acao[1])
          /\ SeqIncludes(config.allowedOrigins, acao[1])

\* Upstream response headers that must not reach the client.
DeniedUpstreamHeaders ==
  {"set-cookie", "set-cookie2", "content-security-policy", "x-frame-options",
   "referrer-policy", "connection", "transfer-encoding"}

\* C14: whatever headers the upstream response carries, no response to
\* the client carries a Set-Cookie, Content-Security-Policy,
\* X-Frame-Options, Referrer-Policy, Connection or Transfer-Encoding
\* header copied from it.
C14_DeniedHeadersNotForwarded ==
  res.headersSent =>
    \A h \in DeniedUpstreamHeaders \cap DOMAIN upstream.headers :
      HeaderGet(res.headers, h) # Some(upstream.headers[h])

\* C15: GET /health is answered 200 whatever the Origin header and the
\* environment mode; it passes neither the origin check nor the rate
\* limiter.
C15_HealthAlways200 ==
  req.route = "health" =>
    /\ ~Happened("origin-rejected") /\ ~Happened("rate-limited")
    /\ pc = "done" => res.statusCode = 200

\* The path component of a URL scheme://authority/path: what follows the
\* slash that ends the authority.
PathComponent(url) ==
  LET sep   == IndexOfAny(url, {":"}, 1)
      slash == IndexOfAny(url, {"/"}, sep + 3)
  IN  IF sep = 0 \/ slash = 0 THEN <<>> ELSE Drop(url, slash + 1)

\* C16: the path component of the URL a path-form request is
\* reconstructed to has no '..', no run of slashes and no leading slash,
\* and the reconstructed URL passes the whole URL validator before it is
\* fetched.
C16_PathSanitizedAndValidated ==
  fe = "path" /\ req.route = "proxy" /\ Happened("target-extracted") =>
    LET targetUrl     == ReconstructedUrl(req.params)
        pathComponent == PathComponent(targetUrl)
    IN  /\ ~Includes(pathComponent, <<".", ".">>)
        /\ ~Includes(pathComponent, <<"/", "/">>)
        /\ ~StartsWith(pathComponent, <<"/">>)
        /\ upstream.fetched =>
             /\ Precedes("validate-ok", "fetch")
             /\ validateTargetUrl(targetUrl, SecurityConfigOf(config)).valid

\* The request passed the origin check and was not turned away by the
\* rate limiter.
Admitted == Happened("origin-ok") /\ ~Happened("rate-limited")

\* C17: with an allowed Origin, GET /proxy?url=http://169.254.169.254/
\* latest/meta-data/ is answered 403 with an error that mentions a
\* private/internal address, and nothing is fetched.
C17_MetadataUrlAnswered403Private ==
  /\ fe # "path" /\ req.route = "proxy"
  /\ req.url = Some(<<"h","t","t","p",":","/","/","1","6","9",".","2","5","4",".","1","6","9",".","2","5","4","/","l","a","t","e","s","t","/","m","e","t","a","-","d","a","t","a","/">>)
  /\ Admitted
  => /\ ~upstream.fetched
     /\ pc = "done" =>
          /\ res.statusCode = 403
          /\ res.payload # None
          /\ res.payload[1].msg = "Access to private/internal IP addresses is not allowed"

\* C18: a proxy request whose target URL does not parse is answered 400;
\* one whose target parses, has an allowed protocol and is a blocked
\* address or outside the allowlist is answered 403.
C18_MalformedIs400PolicyIs403 ==
  req.route = "proxy" /\ Happened("target-extracted") /\ pc = "done" =>
    LET target == URLParse(TargetOf(fe, req))
        c      == SecurityConfigOf(config)
    IN  /\ ~target.ok => res.statusCode = 400
        /\ /\ target.ok
           /\ ProtocolOk(TargetOf(fe, req), c) /\ HttpsOk(TargetOf(fe, req), c)
           /\ ~GuardOk(TargetOf(fe, req)) \/ ~AllowlistOk(TargetOf(fe, req), c)
           => res.statusCode = 403

\* C19: a proxy request without an Origin header is answered 403 in every
\* environment mode, before any target validation or upstream fetch.
C19_MissingOriginRejected ==
  req.route = "proxy" /\ req.origin = None =>
    /\ pc \in {"received", "done"}
    /\ trace \in {<<>>, <<"origin-rejected">>}
    /\ ~upstream.fetched
    /\ pc = "done" => res.statusCode = 403

\* The steps that read or check the target URL.
TargetSteps ==
  {"target-missing", "target-extracted", "protocol-rejected", "host-rejected",
   "parse-failed", "domain-blocked", "validate-ok", "validate-failed", "fetch"}

RequestData ==
  IF req.route # "proxy" THEN {}
  ELSE IF fe = "path" THEN {ReconstructedUrl(req.params), RequestPath(req.params)}
  ELSE IF req.url = None THEN {}
  ELSE {req.url[1]}

\* C21: nothing written to the console while a request is handled, the
\* size-limit abort and the fetch failure included, carries the request's
\* target URL or other data of the request.
C21_ConsoleCarriesNoRequestData ==
  \A i \in DOMAIN console : console[i].data \notin RequestData

(***************************************************************************)
(* Pattern compilation (under SpecCompile)                                 *)
(***************************************************************************)

\* C22: the pattern *.*.example.com in ALLOWED_DOMAINS is compiled into a
\* matcher that matches a.b.example.com and api.v1.example.com and does
\* not match x.y.z.example.com.
C22_TwoLevelWildcardCompiled ==
  CompileDone /\ call.domainsString = Some(<<"*",".","*",".","e","x","a","m","p","l","e",".","c","o","m">>) =>
    /\ call.hostname \in { <<"a",".","b",".","e","x","a","m","p","l","e",".","c","o","m">>, <<"a","p","i",".","v","1",".","e","x","a","m","p","l","e",".","c","o","m">> }
         => \E i \in DOMAIN call.matches : call.matches[i]
    /\ call.hostname = <<"x",".","y",".","z",".","e","x","a","m","p","l","e",".","c","o","m">>
         => \A i \in DOMAIN call.matches : ~call.matches[i]

\* Two wildcard groups in a row: '*' or '*.' followed at once by '*'.
ConsecutiveWildcardGroups(seg) ==
  \E i \in 1..(Len(seg) - 1) :
    /\ seg[i] = "*"
    /\ \/ seg[i + 1] = "*"
       \/ i + 2 <= Len(seg) /\ seg[i + 1] = "." /\ seg[i + 2] = "*"

\* The segments the complexity policy turns away.
TooComplex(seg) ==
  \/ Len(seg) > 100
  \/ CountChar(seg, "*") > 3
  \/ ConsecutiveWildcardGroups(seg)

RECURSIVE KeptSegments(_)
KeptSegments(segs) ==
  IF segs = <<>> THEN <<>>
  ELSE (IF TooComplex(Head(segs)) THEN <<>> ELSE <<Head(segs)>>) \o KeptSegments(Tail(segs))

ListedIPv4(h) ==
  /\ IsDottedQuad(h)
  /\ \/ Octet(h, 1) \in {0, 10, 127}
     \/ Octet(h, 1) = 172 /\ Octet(h, 2) \in 16..31
     \/ Octet(h, 1) = 192 /\ Octet(h, 2) = 168
     \/ Octet(h, 1) = 169 /\ Octet(h, 2) = 254
     \/ Octet(h, 1) \in 224..239
     \/ Octet(h, 1) \in 240..255

\* C26: isPrivateIP is true of every dotted quad in 127/8, 10/8, 172.16/12,
\* 192.168/16, 169.254/16, 0/8, 224/4 and 240/4, and of every IPv6 literal
\* that is ::1 or lies in fe80::/10 or fc00::/7.
C26_ListedRangesArePrivate ==
  call.fn = "isPrivateIP" /\ call.done =>
    (ListedIPv4(call.hostname) \/ InternalIPv6(call.hostname) => call.result)

(***************************************************************************)
(* ValidationResult (under SpecValidators)                                 *)
(***************************************************************************)

\* C29: every result with valid = false that validateTargetUrl or
\* validateResponse returns, on each of their rejection paths, carries an
\* error message that is not empty.
C29_RejectionCarriesMessage ==
  call.fn \in {"validateTargetUrl", "validateResponse"} /\ call.done /\ ~call.result.valid =>
    /\ "error" \in DOMAIN call.result
    /\ call.result.error.msg # ""

\* A rejection by the allowlist, the last of validateTargetUrl's checks.
C29_Witness_AllowlistRejection ==
  /\ call.fn = "validateTargetUrl" /\ call.done
  /\ ~call.result.valid
  /\ call.result.error.msg = "Domain ... is not in the allowlist"
  /\ call.result.error.arg = <<"e","v","i","l",".","c","o","m">>

(***************************************************************************)
(* The streaming phase (under Spec)                                        *)
(***************************************************************************)

\* C30: once the status and a body byte have gone to the client, the
\* handler does not set a status or send an error payload again, also when
\* the upstream read fails or is aborted in mid-stream.
C30_NoStatusAfterFirstByte ==
  res.written > 0 => res.lateStatus = None

\* C25: an OPTIONS request to a proxy endpoint whose Origin is in the
\* allowed-origins list is answered with Access-Control-Allow-Origin equal
\* to that origin, the allowed methods and headers and
\* Access-Control-Max-Age: 86400; with the Origin absent or not in the
\* list it is answered 403 without Access-Control-Allow-Origin.
C25_PreflightEchoesOrRejects ==
  req.route = "options" /\ pc = "done" =>
    IF req.origin # None /\ SeqIncludes(config.allowedOrigins, req.origin[1])
    THEN /\ HeaderGet(res.headers, "access-control-allow-origin") = req.origin
         /\ HeaderGet(res.headers, "access-control-allow-methods") \notin {None, Some(<<>>)}
         /\ HeaderGet(res.headers, "access-control-allow-headers") \notin {None, Some(<<>>)}
         /\ HeaderGet(res.headers, "access-control-max-age") = Some(<<"8","6","4","0","0">>)
    ELSE /\ res.statusCode = 403
         /\ HeaderGet(res.headers, "access-control-allow-origin") = None


(***************************************************************************)
(* The server and its client (under SpecStream)                            *)
(***************************************************************************)

RECURSIVE BytesOf(_)
BytesOf(values) ==
  IF values = <<>> THEN 0 ELSE values[1].byteLength + BytesOf(Tail(values))

\* The upstream answered 200 and declared a length within the limit, the
\* body it has delivered so far fits that length, and the client is there.
RoundTripSoFar ==
  /\ fe \in SelfHosted
  /\ upstream.responded
  /\ upstream.status = 200
  /\ DeclaredBytes(upstream) # None
  /\ DeclaredBytes(upstream)[1] <= maxBytes
  /\ BytesOf(upstream.body) <= DeclaredBytes(upstream)[1]
  /\ res.closedAt = None

\* C24: for an upstream response with status 200 and a Content-Length L
\* within the limit whose body delivers exactly L bytes, in whatever
\* chunks: validateResponse accepts, the streaming loop does not take its
\* overflow branch, the chunks written to the client are the upstream's
\* chunks in order, and the response ends normally.
C24_RoundTripPreservesBody ==
  RoundTripSoFar =>
    /\ ~Happened("response-rejected")
    /\ ~Happened("overflow")
    /\ res.chunks = upstream.body
    /\ res.written = BytesOf(upstream.body)
    /\ (pc = "done" /\ BytesOf(upstream.body) = DeclaredBytes(upstream)[1] /\ Happened("end") =>
          /\ res.ended
          /\ ~res.destroyed
          /\ res.statusCode = 200
          /\ res.lateStatus = None)

\* A body of exactly the declared 1048576 bytes came in two chunks and the
\* response ended.
C24_Witness_TwoChunksExactLength ==
  /\ RoundTripSoFar
  /\ pc = "done"
  /\ Happened("end")
  /\ DeclaredBytes(upstream) = Some(MB)
  /\ Len(upstream.body) = 2
  /\ BytesOf(res.chunks) = MB
  /\ res.ended

\* C27: the handler does not read the next upstream chunk until the
\* previous one has been accepted by the downstream writer: it holds at
\* most one chunk that the socket has not taken.
C27_AtMostOneChunkHeld ==
  fe \in SelfHosted => res.buffered <= 1

\* C28: once the client has disconnected, the upstream read is cancelled:
\* past the read that was in flight when the client went, the handler
\* reads no further chunk for a client that is gone.
C28_NoReadingForGoneClient ==
  fe \in SelfHosted /\ res.closedAt # None =>
    chunksRead <= res.closedAt[1] + 1
=============================================================================
